---- MODULE Spec2Model ----
(***************************************************************************)
(* Insider cluster-buy detection (src/analytics/cluster_buys.py), the      *)
(* insider classification cache (src/insider_classification.py), role      *)
(* weights (src/insider_roles.py) and the cluster score                    *)
(* (src/cluster_scoring.py).                                               *)
(*                                                                         *)
(* Text is modelled as a sequence of one-character strings, so that        *)
(* upper(), split(), strip() and the substring test `x in y` are computed  *)
(* as Python computes them.  Dates are day numbers.  Money and share       *)
(* counts are small integers; a SQL NULL in a numeric column is NULL.      *)
(* The float cluster score is kept in fixed point, SCORE_UNIT per 1.0.     *)
(***************************************************************************)
EXTENDS Integers, Sequences, FiniteSets, TLC

----------------------------------------------------------------------------
(* Text helpers: Python str methods on sequences of characters.            *)

LowerChars == <<"a", "b", "c", "d", "e", "f", "g", "h", "i", "j", "k", "l", "m", "n", "o", "p", "q", "r", "s", "t", "u", "v", "w", "x", "y", "z">>
UpperChars == <<"A", "B", "C", "D", "E", "F", "G", "H", "I", "J", "K", "L", "M", "N", "O", "P", "Q", "R", "S", "T", "U", "V", "W", "X", "Y", "Z">>

\* str.upper() on one character
UpperChar(c) ==
    IF \E i \in 1..Len(LowerChars) : LowerChars[i] = c
    THEN UpperChars[CHOOSE i \in 1..Len(LowerChars) : LowerChars[i] = c]
    ELSE c

\* str.lower() on one character
LowerChar(c) ==
    IF \E i \in 1..Len(UpperChars) : UpperChars[i] = c
    THEN LowerChars[CHOOSE i \in 1..Len(UpperChars) : UpperChars[i] = c]
    ELSE c

Upper(s) == [i \in 1..Len(s) |-> UpperChar(s[i])]
Lower(s) == [i \in 1..Len(s) |-> LowerChar(s[i])]

IsSpace(c) == c \in {" ", "\t"}

\* Python `sub in s`
Contains(s, sub) ==
    \E i \in 0..(Len(s) - Len(sub)) : SubSeq(s, i + 1, i + Len(sub)) = sub

\* str.lstrip()
RECURSIVE LStrip(_)
LStrip(s) == IF s # <<>> /\ IsSpace(s[1]) THEN LStrip(Tail(s)) ELSE s

\* str.rstrip()
RECURSIVE RStrip(_)
RStrip(s) ==
    IF s # <<>> /\ IsSpace(s[Len(s)]) THEN RStrip(SubSeq(s, 1, Len(s) - 1)) ELSE s

\* str.strip()
Strip(s) == RStrip(LStrip(s))

\* str.split() with no argument: the maximal runs of non-whitespace
RECURSIVE SplitFrom(_, _, _)
SplitFrom(s, i, word) ==
    IF i > Len(s) THEN (IF word = <<>> THEN <<>> ELSE <<word>>)
    ELSE IF IsSpace(s[i])
         THEN (IF word = <<>> THEN <<>> ELSE <<word>>) \o SplitFrom(s, i + 1, <<>>)
         ELSE SplitFrom(s, i + 1, Append(word, s[i]))

Split(s) == SplitFrom(s, 1, <<>>)

\* sep.join(parts)
RECURSIVE Join(_, _)
Join(sep, parts) ==
    IF parts = <<>> THEN <<>>
    ELSE IF Len(parts) = 1 THEN parts[1]
    ELSE parts[1] \o sep \o Join(sep, Tail(parts))

\* Code-point order of the characters the model uses
CharOrder == <<"\t", " ", "%", "(", ")", ",", ".", "0", "1", "2", "3", "4", "5", "6", "7", "8", "9", "A", "B", "C", "D", "E", "F", "G", "H", "I", "J", "K", "L", "M", "N", "O", "P", "Q", "R", "S", "T", "U", "V", "W", "X", "Y", "Z", "\\", "_", "a", "b", "c", "d", "e", "f", "g", "h", "i", "j", "k", "l", "m", "n", "o", "p", "q", "r", "s", "t", "u", "v", "w", "x", "y", "z">>

CharCode(c) == CHOOSE i \in 1..Len(CharOrder) : CharOrder[i] = c

\* Python `a < b` on str
RECURSIVE StrLess(_, _)
StrLess(a, b) ==
    IF b = <<>> THEN FALSE
    ELSE IF a = <<>> THEN TRUE
    ELSE IF a[1] = b[1] THEN StrLess(Tail(a), Tail(b))
    ELSE CharCode(a[1]) < CharCode(b[1])

RECURSIVE SeqSum(_)
SeqSum(s) == IF s = <<>> THEN 0 ELSE s[1] + SeqSum(Tail(s))

MaxOf(a, b) == IF a >= b THEN a ELSE b

----------------------------------------------------------------------------
(* src/insider_classification.py: the rule classifier and its AI stub.     *)
(* Confidence is kept in hundredths.                                       *)

FUND_TOKENS ==
    << <<" ", "L", ".", "P">>,
       <<" ", "L", "P">>,
       <<" ", "L", "L", "P">>,
       <<" ", "L", ".", "L", ".", "P">>,
       <<" ", "L", "L", "C">>,
       <<" ", "L", ".", "L", ".", "C">>,
       <<" ", "C", "O", "R", "P">>,
       <<" ", "C", "O", "R", "P", "O", "R", "A", "T", "I", "O", "N">>,
       <<" ", "I", "N", "C">>,
       <<" ", "I", "N", "C", ".">>,
       <<" ", "L", "I", "M", "I", "T", "E", "D">>,
       <<" ", "L", "T", "D">>,
       <<" ", "P", "L", "C">>,
       <<" ", "F", "U", "N", "D">>,
       <<" ", "C", "A", "P", "I", "T", "A", "L">>,
       <<" ", "P", "A", "R", "T", "N", "E", "R", "S">>,
       <<" ", "A", "D", "V", "I", "S", "O", "R", "S">>,
       <<" ", "I", "N", "V", "E", "S", "T", "M", "E", "N", "T">>,
       <<" ", "I", "N", "V", "E", "S", "T", "O", "R", "S">>,
       <<" ", "A", "S", "S", "E", "T", " ", "M", "A", "N", "A", "G", "E", "M", "E", "N", "T">>,
       <<" ", "M", "A", "N", "A", "G", "E", "M", "E", "N", "T", " ", "L", "P">>,
       <<" ", "H", "O", "L", "D", "I", "N", "G", "S">>,
       <<" ", "T", "R", "U", "S", "T">>,
       <<" ", "F", "O", "U", "N", "D", "A", "T", "I", "O", "N">> >>

HIGH_CONFIDENCE_THRESHOLD == 80
RULE_CONFIDENCE_FUND == 80
RULE_CONFIDENCE_PERSON == 60
RULE_CONFIDENCE_FLAGGED == 70
AI_MIN_CONFIDENCE == 75

ENTITY_PERSON == "person"
ENTITY_FUND == "fund_or_investment_vehicle"

normalize_insider_name(name) == Join(<<" ">>, Split(Upper(name)))

\* a variant whose officer/director bump reaches the high-confidence threshold
classify_insider_by_rules_high_bump(name, officer_title, flags) ==
    LET name_u == Upper(name)
        is_fund_like == \E k \in 1..Len(FUND_TOKENS) : Contains(name_u, FUND_TOKENS[k])
        confidence ==
            IF is_fund_like THEN RULE_CONFIDENCE_FUND
            ELSE IF flags.is_officer \/ flags.is_director
                 THEN MaxOf(RULE_CONFIDENCE_PERSON, HIGH_CONFIDENCE_THRESHOLD)
                 ELSE RULE_CONFIDENCE_PERSON
    IN  [entity_type  |-> IF is_fund_like THEN ENTITY_FUND ELSE ENTITY_PERSON,
         is_fund_like |-> is_fund_like,
         source       |-> "rules",
         confidence   |-> confidence]

classify_insider_by_rules(name, officer_title, flags) ==
    LET name_u == Upper(name)
        is_fund_like == \E k \in 1..Len(FUND_TOKENS) : Contains(name_u, FUND_TOKENS[k])
        confidence ==
            IF is_fund_like THEN RULE_CONFIDENCE_FUND
            ELSE IF flags.is_officer \/ flags.is_director
                 THEN MaxOf(RULE_CONFIDENCE_PERSON, RULE_CONFIDENCE_FLAGGED)
                 ELSE RULE_CONFIDENCE_PERSON
    IN  [entity_type  |-> IF is_fund_like THEN ENTITY_FUND ELSE ENTITY_PERSON,
         is_fund_like |-> is_fund_like,
         source       |-> "rules",
         confidence   |-> confidence]

\* a variant of the fallback that hands the rule result back untouched
classify_insider_with_ai_untagged(name, officer_title, flags) ==
    classify_insider_by_rules(name, officer_title, flags)

classify_insider_with_ai(name, officer_title, flags) ==
    LET rules_result == classify_insider_by_rules(name, officer_title, flags)
    IN  [rules_result EXCEPT !.source = "ai",
                             !.confidence = MaxOf(rules_result.confidence, AI_MIN_CONFIDENCE)]

\* get_or_create_insider_entity, lines 149-164: the row a caller builds when
\* its read found nothing
NewEntity(insider_name, officer_title, flags, insider_id) ==
    LET rules_result == classify_insider_by_rules(insider_name, officer_title, flags)
        result == IF rules_result.confidence < HIGH_CONFIDENCE_THRESHOLD
                  THEN classify_insider_with_ai(insider_name, officer_title, flags)
                  ELSE rules_result
    IN  [insider_id      |-> insider_id,
         normalized_name |-> normalize_insider_name(insider_name),
         entity_type     |-> result.entity_type,
         is_fund_like    |-> result.is_fund_like,
         source          |-> result.source,
         confidence      |-> result.confidence]

----------------------------------------------------------------------------
(* src/insider_roles.py                                                    *)

ROLE_WEIGHTS ==
    << [key |-> <<"C", "F", "O">>, weight |-> 4],
       [key |-> <<"C", "H", "I", "E", "F", " ", "F", "I", "N", "A", "N", "C", "I", "A", "L", " ", "O", "F", "F", "I", "C", "E", "R">>, weight |-> 4],
       [key |-> <<"G", "E", "N", "E", "R", "A", "L", " ", "C", "O", "U", "N", "S", "E", "L">>, weight |-> 4],
       [key |-> <<"C", "H", "I", "E", "F", " ", "L", "E", "G", "A", "L", " ", "O", "F", "F", "I", "C", "E", "R">>, weight |-> 4],
       [key |-> <<"C", "O", "O">>, weight |-> 3],
       [key |-> <<"C", "H", "I", "E", "F", " ", "O", "P", "E", "R", "A", "T", "I", "N", "G", " ", "O", "F", "F", "I", "C", "E", "R">>, weight |-> 3],
       [key |-> <<"V", "P">>, weight |-> 3],
       [key |-> <<"V", "I", "C", "E", " ", "P", "R", "E", "S", "I", "D", "E", "N", "T">>, weight |-> 3],
       [key |-> <<"S", "V", "P">>, weight |-> 3],
       [key |-> <<"E", "V", "P">>, weight |-> 3],
       [key |-> <<"S", "E", "N", "I", "O", "R", " ", "V", "I", "C", "E", " ", "P", "R", "E", "S", "I", "D", "E", "N", "T">>, weight |-> 3],
       [key |-> <<"E", "X", "E", "C", "U", "T", "I", "V", "E", " ", "V", "I", "C", "E", " ", "P", "R", "E", "S", "I", "D", "E", "N", "T">>, weight |-> 3],
       [key |-> <<"C", "M", "O">>, weight |-> 3],
       [key |-> <<"C", "H", "I", "E", "F", " ", "M", "A", "R", "K", "E", "T", "I", "N", "G", " ", "O", "F", "F", "I", "C", "E", "R">>, weight |-> 3],
       [key |-> <<"C", "H", "I", "E", "F", " ", "C", "O", "M", "P", "L", "I", "A", "N", "C", "E", " ", "O", "F", "F", "I", "C", "E", "R">>, weight |-> 3],
       [key |-> <<"C", "H", "I", "E", "F", " ", "P", "O", "R", "T", "F", "O", "L", "I", "O", " ", "M", "A", "N", "A", "G", "E", "R">>, weight |-> 3],
       [key |-> <<"C", "E", "O">>, weight |-> 2],
       [key |-> <<"C", "H", "I", "E", "F", " ", "E", "X", "E", "C", "U", "T", "I", "V", "E", " ", "O", "F", "F", "I", "C", "E", "R">>, weight |-> 2],
       [key |-> <<"P", "R", "E", "S", "I", "D", "E", "N", "T">>, weight |-> 2],
       [key |-> <<"O", "F", "F", "I", "C", "E", "R">>, weight |-> 1],
       [key |-> <<"D", "I", "R", "E", "C", "T", "O", "R">>, weight |-> 1] >>

\* a variant of the scan that adds the weights up
RECURSIVE RoleScanSum(_, _, _)
RoleScanSum(title_u, k, max_weight) ==
    IF k > Len(ROLE_WEIGHTS) THEN max_weight
    ELSE RoleScanSum(title_u, k + 1,
                     IF Contains(title_u, ROLE_WEIGHTS[k].key)
                     THEN max_weight + ROLE_WEIGHTS[k].weight
                     ELSE max_weight)

\* for key, weight in ROLE_WEIGHTS.items(): if key in title_u: max_weight = max(...)
RECURSIVE RoleScan(_, _, _)
RoleScan(title_u, k, max_weight) ==
    IF k > Len(ROLE_WEIGHTS) THEN max_weight
    ELSE RoleScan(title_u, k + 1,
                  IF Contains(title_u, ROLE_WEIGHTS[k].key)
                  THEN MaxOf(max_weight, ROLE_WEIGHTS[k].weight)
                  ELSE max_weight)

ROLE_WEIGHT_OFFICER == 1
ROLE_WEIGHT_DIRECTOR == 1

compute_insider_role_weight(officer_title, is_director, is_officer) ==
    LET max_weight == RoleScan(Upper(officer_title), 1, 0)
    IN  IF max_weight = 0
        THEN (IF is_officer THEN ROLE_WEIGHT_OFFICER
              ELSE IF is_director THEN ROLE_WEIGHT_DIRECTOR
              ELSE 0)
        ELSE max_weight

----------------------------------------------------------------------------
(* src/cluster_scoring.py.  One unit of score is 1/SCORE_UNIT; SCORE_UNIT  *)
(* is 1000 (the resolution of the log10 table) times 60, so that           *)
(* funds / all_insiders is exact for up to six insiders.                   *)

SCORE_UNIT == 60000

\* floor(1000 * log10(n)) for n = 1..64
LOG10_MILLI ==
    << 0, 301, 477, 602, 698, 778, 845, 903, 954, 1000, 1041, 1079, 1113, 1146, 1176, 1204,
       1230, 1255, 1278, 1301, 1322, 1342, 1361, 1380, 1397, 1414, 1431, 1447, 1462, 1477, 1491, 1505,
       1518, 1531, 1544, 1556, 1568, 1579, 1591, 1602, 1612, 1623, 1633, 1643, 1653, 1662, 1672, 1681,
       1690, 1698, 1707, 1716, 1724, 1732, 1740, 1748, 1755, 1763, 1770, 1778, 1785, 1792, 1799, 1806 >>

Log10Milli(n) == LOG10_MILLI[n]

W_ROLE == 2
W_PEOPLE == 1
W_VALUE == 2
W_FUND == 2

\* a variant that rewards the fund ratio instead of penalising it
compute_cluster_score_fund_bonus(people, role_score, total_value_usd, funds, all_insiders) ==
    LET all == MaxOf(all_insiders, 1)
        value_score == IF total_value_usd > 0
                       THEN (SCORE_UNIT \div 1000) * Log10Milli(total_value_usd + 1)
                       ELSE 0
        fund_ratio == (SCORE_UNIT * funds) \div all
    IN  W_ROLE * role_score * SCORE_UNIT
        + W_PEOPLE * people * SCORE_UNIT
        + W_VALUE * value_score
        + W_FUND * fund_ratio

compute_cluster_score(people, role_score, total_value_usd, funds, all_insiders) ==
    LET all == MaxOf(all_insiders, 1)
        value_score == IF total_value_usd > 0
                       THEN (SCORE_UNIT \div 1000) * Log10Milli(total_value_usd + 1)
                       ELSE 0
        fund_ratio == (SCORE_UNIT * funds) \div all
    IN  W_ROLE * role_score * SCORE_UNIT
        + W_PEOPLE * people * SCORE_UNIT
        + W_VALUE * value_score
        - W_FUND * fund_ratio

----------------------------------------------------------------------------
(* The stores: insider_buy_signals, insider_exclusions, insider_entities.  *)

\* a SQL NULL in a numeric column (shares, total_value); what
\* pd.to_numeric(..., errors="coerce").fillna(0.0) turns into 0
NULL == -1

Coalesce0(v) == IF v = NULL THEN 0 ELSE v

ZETA == <<"Z", "E", "T", "A">>
ACME == <<"A", "C", "M", "E">>
NONE_TICKER == <<"N", "O", "N", "E">>
\* find_cluster_buys(ticker=None)
NoTicker == <<>>

NAME_A == <<"A">>
NAME_A_LOWER == <<"a">>
NAME_B == <<"B">>
NAME_C == <<"C">>
NAME_B_BACKSLASH_C == <<"B", "\\", "C">>
NAME_VANGUARD == <<"V", "A", "N", "G", "U", "A", "R", "D", " ", "G", "R", "O", "U", "P", " ", "I", "N", "C">>

BLANK == <<>>
TITLE_CFO == <<"C", "F", "O">>
TITLE_DIRECTOR == <<"D", "i", "r", "e", "c", "t", "o", "r">>
REL_OFFICER == <<"O", "f", "f", "i", "c", "e", "r">>
REL_DIRECTOR == <<"D", "i", "r", "e", "c", "t", "o", "r">>
REL_TEN_PCT == <<"1", "0", "%", " ", "O", "w", "n", "e", "r">>

Txn(ticker, name, rel, title, tdate, fdate, shares, value) ==
    [ticker |-> ticker, insider_name |-> name, insider_relationship |-> rel,
     insider_title |-> title, transaction_date |-> tdate, filing_date |-> fdate,
     shares |-> shares, total_value |-> value]

\* The rows the upstream loader can deliver: three insiders buying ZETA on days
\* 0, 5 and 9, the first of them again on day 5 under another spelling and title,
\* a fund, a second issuer, a row filed late, a row without a value, a row of
\* the sentinel ticker, an insider whose name holds a backslash and a row
\* without a filing date.
TxnUniverse ==
    { Txn(ZETA, NAME_A, REL_OFFICER, TITLE_CFO, 0, 0, 1, 1),
      Txn(ZETA, NAME_B, REL_DIRECTOR, BLANK, 5, 5, 1, 9),
      Txn(ZETA, NAME_C, BLANK, BLANK, 9, 9, 2, 2),
      Txn(ZETA, NAME_A_LOWER, REL_DIRECTOR, TITLE_DIRECTOR, 5, 6, 1, 2),
      Txn(ZETA, NAME_VANGUARD, REL_TEN_PCT, BLANK, 9, 9, 5, 9),
      Txn(ACME, NAME_B, REL_DIRECTOR, BLANK, 9, 9, 1, 9),
      Txn(ACME, NAME_C, BLANK, BLANK, 5, 30, 1, 1),
      Txn(ACME, NAME_A, REL_OFFICER, TITLE_CFO, 9, 9, 1, NULL),
      Txn(NONE_TICKER, NAME_C, BLANK, BLANK, 9, 9, 1, 9),
      Txn(ACME, NAME_B_BACKSLASH_C, BLANK, BLANK, 9, 9, 1, 3),
      Txn(ZETA, NAME_B, REL_DIRECTOR, BLANK, 9, NULL, 1, 4) }

PATTERN_VANGUARD == <<"v", "a", "n", "g", "u", "a", "r", "d">>

PATTERN_B_BACKSLASH_C == <<"b", "\\", "c">>

ExclusionUniverse ==
    { [pattern |-> PATTERN_VANGUARD, active |-> TRUE],
      [pattern |-> PATTERN_VANGUARD, active |-> FALSE],
      [pattern |-> PATTERN_B_BACKSLASH_C, active |-> TRUE] }

\* max_fund_ratio, min_people, min_cluster_score = None
NONE == -1000000

DefaultParams ==
    [window_days |-> 10, lookback_days |-> 90, min_insiders |-> 2,
     min_total_value |-> 0, min_trade_value |-> 0, ticker |-> NoTicker,
     use_exclusions |-> TRUE, min_role_score |-> 0, min_people |-> NONE,
     max_fund_ratio |-> NONE, min_cluster_score |-> NONE, limit |-> 20]

----------------------------------------------------------------------------
(* Per-value tables of the text functions over the values the stores can   *)
(* hold, so that each is computed once.                                    *)

NAME_SPACES == <<" ", " ">>

\* Rows for the role and name checks: a fund-like insider filed as an officer
\* with the title CFO, a person who is CFO, a director, a row without an insider
\* name, a row whose insider name is white space, and a person without a role.
InsiderUniverse ==
    { Txn(ZETA, NAME_VANGUARD, REL_OFFICER, TITLE_CFO, 9, 9, 1, 9),
      Txn(ZETA, NAME_A, REL_OFFICER, TITLE_CFO, 9, 9, 1, 1),
      Txn(ZETA, NAME_B, REL_DIRECTOR, BLANK, 9, 9, 1, 9),
      Txn(ZETA, BLANK, BLANK, BLANK, 9, 9, 1, 5),
      Txn(ZETA, NAME_SPACES, REL_OFFICER, TITLE_CFO, 9, 9, 1, 3),
      Txn(ZETA, NAME_C, BLANK, BLANK, 5, 5, 2, 2) }

RawNames == {r.insider_name : r \in TxnUniverse \cup InsiderUniverse}
Relationships == {r.insider_relationship : r \in TxnUniverse \cup InsiderUniverse}
Titles == {r.insider_title : r \in TxnUniverse \cup InsiderUniverse}

NormalizedNameOf == [n \in RawNames |-> normalize_insider_name(n)]

\* _derive_flags: base_df carries no is_director / is_officer column of its own,
\* so the flags come from the relationship text alone
derive_flags(relationship) ==
    LET rel == Lower(relationship)
    IN  [is_director |-> Contains(rel, <<"d", "i", "r", "e", "c", "t", "o", "r">>),
         is_officer  |-> Contains(rel, <<"o", "f", "f", "i", "c", "e", "r">>)]

FlagsOf == [rel \in Relationships |-> derive_flags(rel)]

RoleWeightOf ==
    [title \in Titles |-> [d \in BOOLEAN |-> [o \in BOOLEAN |->
        compute_insider_role_weight(title, d, o)]]]

\* SQL LIKE: % matches any run of characters, _ any one character, and a
\* backslash makes the character after it stand for itself
RECURSIVE LikeMatch(_, _)
LikeMatch(s, p) ==
    IF p = <<>> THEN s = <<>>
    ELSE IF p[1] = "\\"
         THEN /\ Len(p) >= 2
              /\ s # <<>>
              /\ s[1] = p[2]
              /\ LikeMatch(Tail(s), Tail(Tail(p)))
    ELSE IF p[1] = "%"
         THEN LikeMatch(s, Tail(p)) \/ (s # <<>> /\ LikeMatch(Tail(s), p))
         ELSE s # <<>> /\ (p[1] = "_" \/ p[1] = s[1]) /\ LikeMatch(Tail(s), Tail(p))

\* insider_name ILIKE ('%' || pattern || '%')
ILikeContains(name, pattern) ==
    LikeMatch(Lower(name), Lower(<<"%">> \o pattern \o <<"%">>))

ExcludedBy ==
    [n \in RawNames |-> [e \in {x.pattern : x \in ExclusionUniverse} |->
        ILikeContains(n, e)]]

\* _first_nonempty
RECURSIVE first_nonempty(_)
first_nonempty(series) ==
    IF series = <<>> THEN <<>>
    ELSE IF Strip(series[1]) # <<>> THEN Strip(series[1])
    ELSE first_nonempty(Tail(series))

\* _format_insider_label
format_insider_label(name, relationship, title) ==
    LET rel == Strip(relationship)
        role == Strip(title)
        descriptor ==
            IF Lower(rel) = <<"o", "f", "f", "i", "c", "e", "r">>
            THEN (IF role # <<>> THEN <<"O", "f", "f", "i", "c", "e", "r">> \o <<",", " ">> \o role ELSE <<"O", "f", "f", "i", "c", "e", "r">>)
            ELSE IF rel # <<>> /\ role # <<>> THEN rel \o <<",", " ">> \o role
            ELSE IF rel # <<>> THEN rel ELSE role
    IN  IF descriptor # <<>> THEN name \o <<" ", "(">> \o descriptor \o <<")">> ELSE name

----------------------------------------------------------------------------
(* find_cluster_buys, the SQL half: scope, raw windows, thresholds,        *)
(* DISTINCT ON.                                                            *)

SetMax(S) == CHOOSE x \in S : \A y \in S : y <= x

RECURSIVE SetSum(_, _)
SetSum(S, col) ==
    IF S = {} THEN 0
    ELSE LET r == CHOOSE x \in S : TRUE IN r[col] + SetSum(S \ {r}, col)

\* SQL SUM(col): NULLs are skipped, and the sum of no value at all is NULL
SqlSum(S, col) ==
    LET vals == {r \in S : r[col] # NULL}
    IN  IF vals = {} THEN NULL ELSE SetSum(vals, col)

\* a variant that anchors on the newest transaction date instead
LatestTransactionDate(signals) ==
    IF signals = {} THEN NULL ELSE SetMax({s.transaction_date : s \in signals})

\* a variant that falls back to day 0 where no row carries a filing date
LatestFilingDateOrDayZero(signals) ==
    LET dates == {s.filing_date : s \in signals} \ {NULL}
    IN  IF dates = {} THEN 0 ELSE SetMax(dates)

\* get_latest_filing_date: SELECT MAX(filing_date), which skips NULLs; the
\* result is NULL, and the function raises, when no row carries a filing date
get_latest_filing_date(signals) ==
    LET dates == {s.filing_date : s \in signals} \ {NULL}
    IN  IF dates = {} THEN NULL ELSE SetMax(dates)

\* variant: the query without the exclusions clause
ExclusionsClauseOmitted(s, exclusions) == TRUE

\* the NOT EXISTS (... insider_exclusions ...) clause
NotExcluded(s, exclusions) ==
    ~\E e \in exclusions : e.active /\ ExcludedBy[s.insider_name][e.pattern]

\* the `base` CTE, and again base_sql: the transactions in scope
BaseRows(signals, exclusions, p, latest_date) ==
    LET start_date == latest_date - p.lookback_days
    IN  {s \in signals :
            /\ s.transaction_date >= start_date
            /\ s.transaction_date <= latest_date
            /\ s.ticker # NONE_TICKER
            /\ (p.min_trade_value # 0 => Coalesce0(s.total_value) >= p.min_trade_value)
            /\ (p.use_exclusions => NotExcluded(s, exclusions))
            /\ (p.ticker # NoTicker => s.ticker = p.ticker)}

\* the `computed` CTE: the raw window of one transaction
\* a variant whose window reaches back window_days days, one day too many
RawWindowOneDayLonger(b, base, p) ==
    LET window_interval == p.window_days
        window_start == b.transaction_date - window_interval
        window_end == b.transaction_date
        inside == {b2 \in base :
                      /\ b2.ticker = b.ticker
                      /\ b2.transaction_date >= window_start
                      /\ b2.transaction_date <= window_end}
    IN  [ticker |-> b.ticker, window_start |-> window_start, window_end |-> window_end,
         num_trades |-> Cardinality(inside),
         num_insiders |-> Cardinality({b2.insider_name : b2 \in inside}),
         total_shares |-> SqlSum(inside, "shares"),
         total_value |-> SqlSum(inside, "total_value")]

RawWindow(b, base, p) ==
    LET window_interval == p.window_days - 1
        window_start == b.transaction_date - window_interval
        window_end == b.transaction_date
        inside == {b2 \in base :
                      /\ b2.ticker = b.ticker
                      /\ b2.transaction_date >= window_start
                      /\ b2.transaction_date <= window_end}
    IN  [ticker |-> b.ticker, window_start |-> window_start, window_end |-> window_end,
         num_trades |-> Cardinality(inside),
         num_insiders |-> Cardinality({b2.insider_name : b2 \in inside}),
         total_shares |-> SqlSum(inside, "shares"),
         total_value |-> SqlSum(inside, "total_value")]

\* a variant of the `filtered` CTE without the total_value threshold
PassesRawThresholdsNoValue(w, p) ==
    w.num_insiders >= p.min_insiders

\* the `filtered` CTE; a NULL total_value fails the comparison
PassesRawThresholds(w, p) ==
    /\ w.num_insiders >= p.min_insiders
    /\ w.total_value # NULL
    /\ w.total_value >= p.min_total_value

\* ORDER BY ticker, window_start, window_end
WindowLess(a, b) ==
    \/ StrLess(a.ticker, b.ticker)
    \/ a.ticker = b.ticker /\ a.window_start < b.window_start
    \/ a.ticker = b.ticker /\ a.window_start = b.window_start
         /\ a.window_end < b.window_end

RECURSIVE OrderWindows(_)
OrderWindows(S) ==
    IF S = {} THEN <<>>
    ELSE LET m == CHOOSE x \in S : \A y \in S \ {x} : WindowLess(x, y)
         IN  <<m>> \o OrderWindows(S \ {m})

\* The first query's result df.  Rows of one (ticker, window_start, window_end)
\* come from transactions of one ticker and day, so they carry the same figures
\* and DISTINCT ON keeps one of them.
RawWindowsDf(base, p) ==
    OrderWindows({w \in {RawWindow(b, base, p) : b \in base} : PassesRawThresholds(w, p)})

----------------------------------------------------------------------------
(* find_cluster_buys, the pandas half: classification, interval merge,     *)
(* recomputation over the merged intervals, post-filters, ranking.         *)

NoInsiderId == "None"

NewEntityOf ==
    [n \in RawNames |-> [title \in Titles |-> [rel \in Relationships |->
        NewEntity(n, title, FlagsOf[rel], NoInsiderId)]]]

NormalizedName(row) == NormalizedNameOf[row.insider_name]

\* base_df.drop_duplicates(subset=["normalized_name"]): the first row of a name
FirstRowOf(base_df, n) ==
    base_df[CHOOSE i \in 1..Len(base_df) :
                /\ NormalizedName(base_df[i]) = n
                /\ \A j \in 1..(i - 1) : NormalizedName(base_df[j]) # n]

\* a variant of _classify_insiders without the `if not normalized: continue`
NamesToClassifyBlankIncluded(base_df) ==
    {NormalizedName(base_df[i]) : i \in 1..Len(base_df)}

\* _classify_insiders, lines 87-95: the normalized names it passes to
\* get_or_create_insider_entity; a blank one is skipped
NamesToClassify(base_df) ==
    {NormalizedName(base_df[i]) : i \in 1..Len(base_df)} \ {<<>>}

\* get_or_create_insider_entity, lines 137-139: a name that normalizes to the
\* empty string raises ValueError
ClassifyRaises(base_df) == <<>> \in NamesToClassify(base_df)

\* _classify_insiders: get_or_create_insider_entity for the first row of every
\* non-blank normalized name; a cached name is left as it is
classify_insiders(base_df, entities) ==
    LET names == NamesToClassify(base_df)
        cached == {e.normalized_name : e \in entities}
    IN  entities \cup
        { LET row == FirstRowOf(base_df, n)
          IN  NewEntityOf[row.insider_name][row.insider_title][row.insider_relationship]
          : n \in names \ cached }

\* a variant that takes nobody for fund-like
IsFundLikeNever(entities, n) == FALSE

\* classifications[n]["is_fund_like"] if n in classifications else False
IsFundLike(entities, n) ==
    \E e \in entities : e.normalized_name = n /\ e.is_fund_like

\* a variant of the sweep step with a strict comparison: two windows that only
\* touch stay apart
MergeStepStrict(merged_intervals, iv) ==
    IF merged_intervals = <<>> THEN <<iv>>
    ELSE LET k == Len(merged_intervals)
             last_start == merged_intervals[k][1]
             last_end == merged_intervals[k][2]
         IN  IF iv[1] < last_end
             THEN [merged_intervals EXCEPT ![k] = <<last_start, MaxOf(last_end, iv[2])>>]
             ELSE Append(merged_intervals, iv)

\* a variant of the sweep step that never merges
MergeStepAppend(merged_intervals, iv) == Append(merged_intervals, iv)

\* one step of the sweep over the sorted intervals (lines 356-364)
MergeStep(merged_intervals, iv) ==
    IF merged_intervals = <<>> THEN <<iv>>
    ELSE LET k == Len(merged_intervals)
             last_start == merged_intervals[k][1]
             last_end == merged_intervals[k][2]
         IN  IF iv[1] <= last_end
             THEN [merged_intervals EXCEPT ![k] = <<last_start, MaxOf(last_end, iv[2])>>]
             ELSE Append(merged_intervals, iv)

RECURSIVE MergeSweep(_, _)
MergeSweep(intervals, merged_intervals) ==
    IF intervals = <<>> THEN merged_intervals
    ELSE MergeSweep(Tail(intervals), MergeStep(merged_intervals, intervals[1]))

\* sorted(..., key=lambda x: x[0]): stable, by start only
RECURSIVE InsertByStart(_, _)
InsertByStart(sorted, iv) ==
    IF sorted = <<>> THEN <<iv>>
    ELSE IF iv[1] < sorted[1][1] THEN <<iv>> \o sorted
    ELSE <<sorted[1]>> \o InsertByStart(Tail(sorted), iv)

RECURSIVE SortByStart(_)
SortByStart(intervals) ==
    IF intervals = <<>> THEN <<>>
    ELSE InsertByStart(SortByStart(SubSeq(intervals, 1, Len(intervals) - 1)),
                       intervals[Len(intervals)])

MergeIntervals(intervals) == MergeSweep(SortByStart(intervals), <<>>)

Column(rows, col) == [i \in 1..Len(rows) |-> rows[i][col]]

RECURSIVE OrderNames(_)
OrderNames(S) ==
    IF S = {} THEN <<>>
    ELSE LET m == CHOOSE x \in S : \A y \in S \ {x} : StrLess(x, y)
         IN  <<m>> \o OrderNames(S \ {m})

\* subset.groupby("normalized_name").agg(...): one row per name
GroupRow(subset, n, entities) ==
    LET rows == SelectSeq(subset, LAMBDA r : NormalizedName(r) = n)
    IN  [normalized_name |-> n,
         insider_name |-> first_nonempty(Column(rows, "insider_name")),
         total_value |-> SeqSum([i \in 1..Len(rows) |-> Coalesce0(rows[i].total_value)]),
         relationship |-> first_nonempty(Column(rows, "insider_relationship")),
         title |-> first_nonempty(Column(rows, "insider_title")),
         is_fund_like |-> IsFundLike(entities, n),
         is_director |-> \E i \in 1..Len(rows) : FlagsOf[rows[i].insider_relationship].is_director,
         is_officer |-> \E i \in 1..Len(rows) : FlagsOf[rows[i].insider_relationship].is_officer]

\* .sort_values("total_value", ascending=False); ties keep the group order
RECURSIVE InsertByValueDesc(_, _)
InsertByValueDesc(sorted, g) ==
    IF sorted = <<>> THEN <<g>>
    ELSE IF g.total_value > sorted[1].total_value THEN <<g>> \o sorted
    ELSE <<sorted[1]>> \o InsertByValueDesc(Tail(sorted), g)

RECURSIVE SortByValueDesc(_)
SortByValueDesc(groups) ==
    IF groups = <<>> THEN <<>>
    ELSE InsertByValueDesc(SortByValueDesc(SubSeq(groups, 1, Len(groups) - 1)),
                           groups[Len(groups)])

Grouped(subset, entities) ==
    LET names == OrderNames({NormalizedName(subset[i]) : i \in 1..Len(subset)})
    IN  SortByValueDesc([k \in 1..Len(names) |-> GroupRow(subset, names[k], entities)])

GroupLabel(g) == format_insider_label(g.insider_name, g.relationship, g.title)

GroupWeight(g) ==
    IF g.title \in Titles
    THEN RoleWeightOf[g.title][g.is_director][g.is_officer]
    ELSE compute_insider_role_weight(g.title, g.is_director, g.is_officer)

HasKeyRole(people, keys) ==
    \E i \in 1..Len(people) : \E k \in keys : Contains(Upper(people[i].title), k)

\* a variant that leaves out the trades of the interval's last day
IntervalSubsetHalfOpen(ticker_rows, start, end) ==
    SelectSeq(ticker_rows,
              LAMBDA r : r.transaction_date >= start /\ r.transaction_date < end)

\* ticker_rows[(transaction_date >= start) & (transaction_date <= end)]
IntervalSubset(ticker_rows, start, end) ==
    SelectSeq(ticker_rows,
              LAMBDA r : r.transaction_date >= start /\ r.transaction_date <= end)

\* a variant that takes the role weight and the key roles from every insider
\* of the interval, the fund-like ones included
MergedRecordRolesOfAll(ticker_value, start, end, subset, entities) ==
    LET grouped == Grouped(subset, entities)
        people == SelectSeq(grouped, LAMBDA g : ~g.is_fund_like)
        funds == SelectSeq(grouped, LAMBDA g : g.is_fund_like)
        weights == [i \in 1..Len(grouped) |-> GroupWeight(grouped[i])]
        role_score == SeqSum(weights)
        total_value == SeqSum([i \in 1..Len(subset) |-> Coalesce0(subset[i].total_value)])
        has_cfo == HasKeyRole(grouped, {<<"C", "F", "O">>, <<"C", "H", "I", "E", "F", " ", "F", "I", "N", "A", "N", "C", "I", "A", "L", " ", "O", "F", "F", "I", "C", "E", "R">>})
        has_gc == HasKeyRole(grouped, {<<"G", "E", "N", "E", "R", "A", "L", " ", "C", "O", "U", "N", "S", "E", "L">>, <<"C", "H", "I", "E", "F", " ", "L", "E", "G", "A", "L", " ", "O", "F", "F", "I", "C", "E", "R">>})
        has_ceo == HasKeyRole(grouped, {<<"C", "E", "O">>, <<"C", "H", "I", "E", "F", " ", "E", "X", "E", "C", "U", "T", "I", "V", "E", " ", "O", "F", "F", "I", "C", "E", "R">>})
    IN  [ticker |-> ticker_value,
         window_start |-> start,
         window_end |-> end,
         num_trades |-> Len(subset),
         num_insiders |-> Len(people),
         num_total_insiders |-> Len(grouped),
         num_fund_like |-> Len(funds),
         total_shares |-> SeqSum([i \in 1..Len(subset) |-> Coalesce0(subset[i].shares)]),
         total_value |-> total_value,
         top_insiders |-> Join(<<",", " ">>, [i \in 1..Len(people) |-> GroupLabel(people[i])]),
         fund_like_insiders |-> Join(<<",", " ">>, [i \in 1..Len(funds) |-> GroupLabel(funds[i])]),
         role_score |-> role_score,
         num_key_officers |-> Cardinality({i \in 1..Len(weights) : weights[i] >= 3}),
         has_cfo |-> has_cfo,
         has_gc |-> has_gc,
         has_ceo |-> has_ceo,
         key_roles |-> (IF has_cfo THEN <<"CFO">> ELSE <<>>)
                       \o (IF has_gc THEN <<"GC">> ELSE <<>>)
                       \o (IF has_ceo THEN <<"CEO">> ELSE <<>>),
         cluster_score |-> compute_cluster_score(Len(people), role_score, total_value,
                                                 Len(funds), Len(grouped))]

\* lines 373-462: the record of one merged interval
MergedRecord(ticker_value, start, end, subset, entities) ==
    LET grouped == Grouped(subset, entities)
        people == SelectSeq(grouped, LAMBDA g : ~g.is_fund_like)
        funds == SelectSeq(grouped, LAMBDA g : g.is_fund_like)
        weights == [i \in 1..Len(people) |-> GroupWeight(people[i])]
        role_score == SeqSum(weights)
        total_value == SeqSum([i \in 1..Len(subset) |-> Coalesce0(subset[i].total_value)])
        has_cfo == HasKeyRole(people, {<<"C", "F", "O">>, <<"C", "H", "I", "E", "F", " ", "F", "I", "N", "A", "N", "C", "I", "A", "L", " ", "O", "F", "F", "I", "C", "E", "R">>})
        has_gc == HasKeyRole(people, {<<"G", "E", "N", "E", "R", "A", "L", " ", "C", "O", "U", "N", "S", "E", "L">>, <<"C", "H", "I", "E", "F", " ", "L", "E", "G", "A", "L", " ", "O", "F", "F", "I", "C", "E", "R">>})
        has_ceo == HasKeyRole(people, {<<"C", "E", "O">>, <<"C", "H", "I", "E", "F", " ", "E", "X", "E", "C", "U", "T", "I", "V", "E", " ", "O", "F", "F", "I", "C", "E", "R">>})
    IN  [ticker |-> ticker_value,
         window_start |-> start,
         window_end |-> end,
         num_trades |-> Len(subset),
         num_insiders |-> Len(people),
         num_total_insiders |-> Len(grouped),
         num_fund_like |-> Len(funds),
         total_shares |-> SeqSum([i \in 1..Len(subset) |-> Coalesce0(subset[i].shares)]),
         total_value |-> total_value,
         top_insiders |-> Join(<<",", " ">>, [i \in 1..Len(people) |-> GroupLabel(people[i])]),
         fund_like_insiders |-> Join(<<",", " ">>, [i \in 1..Len(funds) |-> GroupLabel(funds[i])]),
         role_score |-> role_score,
         num_key_officers |-> Cardinality({i \in 1..Len(weights) : weights[i] >= 3}),
         has_cfo |-> has_cfo,
         has_gc |-> has_gc,
         has_ceo |-> has_ceo,
         key_roles |-> (IF has_cfo THEN <<"CFO">> ELSE <<>>)
                       \o (IF has_gc THEN <<"GC">> ELSE <<>>)
                       \o (IF has_ceo THEN <<"CEO">> ELSE <<>>),
         cluster_score |-> compute_cluster_score(Len(people), role_score, total_value,
                                                 Len(funds), Len(grouped))]

\* lines 366-462 for one ticker: a record per merged interval that holds a
\* transaction
RECURSIVE IntervalRecords(_, _, _, _)
IntervalRecords(ticker_value, merged_intervals, ticker_rows, entities) ==
    IF merged_intervals = <<>> THEN <<>>
    ELSE LET start == merged_intervals[1][1]
             end == merged_intervals[1][2]
             subset == IntervalSubset(ticker_rows, start, end)
         IN  (IF subset = <<>> THEN <<>>
              ELSE <<MergedRecord(ticker_value, start, end, subset, entities)>>)
             \o IntervalRecords(ticker_value, Tail(merged_intervals), ticker_rows, entities)

\* the body of `for ticker_value, tdf in df.groupby("ticker")`
TickerRecords(ticker_value, df, base_df, entities) ==
    LET tdf == SelectSeq(df, LAMBDA w : w.ticker = ticker_value)
        intervals == [i \in 1..Len(tdf) |-> <<tdf[i].window_start, tdf[i].window_end>>]
        ticker_rows == SelectSeq(base_df, LAMBDA r : r.ticker = ticker_value)
    IN  IntervalRecords(ticker_value, MergeIntervals(intervals), ticker_rows, entities)

RECURSIVE MergedRecords(_, _, _, _)
MergedRecords(tickers, df, base_df, entities) ==
    IF tickers = <<>> THEN <<>>
    ELSE TickerRecords(tickers[1], df, base_df, entities)
         \o MergedRecords(Tail(tickers), df, base_df, entities)

\* a variant without the fund-ratio filter
PassesPostFiltersNoFundRatio(e, p) ==
    /\ (p.min_insiders # 0 => e.num_insiders >= p.min_insiders)
    /\ (p.min_people # NONE => e.num_insiders >= p.min_people)
    /\ e.role_score >= p.min_role_score
    /\ (p.min_cluster_score # NONE => e.cluster_score >= p.min_cluster_score)

\* a variant without the min_insiders filter on the merged figures
PassesPostFiltersNoMinInsiders(e, p) ==
    /\ (p.min_people # NONE => e.num_insiders >= p.min_people)
    /\ e.role_score >= p.min_role_score
    /\ (p.min_cluster_score # NONE => e.cluster_score >= p.min_cluster_score)
    /\ (p.max_fund_ratio # NONE =>
          LET denom == IF e.num_total_insiders = 0 THEN 1 ELSE e.num_total_insiders
          IN  e.num_fund_like * 100 <= p.max_fund_ratio * denom)

\* lines 467-478
PassesPostFilters(e, p) ==
    /\ (p.min_insiders # 0 => e.num_insiders >= p.min_insiders)
    /\ (p.min_people # NONE => e.num_insiders >= p.min_people)
    /\ e.role_score >= p.min_role_score
    /\ (p.min_cluster_score # NONE => e.cluster_score >= p.min_cluster_score)
    /\ (p.max_fund_ratio # NONE =>
          LET denom == IF e.num_total_insiders = 0 THEN 1 ELSE e.num_total_insiders
          IN  e.num_fund_like * 100 <= p.max_fund_ratio * denom)

\* a variant that ranks by dollar value alone
RanksBeforeByValue(a, b) == a.total_value > b.total_value

\* sort_values(by=[cluster_score, role_score, num_insiders, total_value,
\* num_fund_like], ascending=[False, False, False, False, True]): a goes before b
RanksBefore(a, b) ==
    \/ a.cluster_score > b.cluster_score
    \/ /\ a.cluster_score = b.cluster_score
       /\ \/ a.role_score > b.role_score
          \/ /\ a.role_score = b.role_score
             /\ \/ a.num_insiders > b.num_insiders
                \/ /\ a.num_insiders = b.num_insiders
                   /\ \/ a.total_value > b.total_value
                      \/ /\ a.total_value = b.total_value
                         /\ a.num_fund_like < b.num_fund_like

RECURSIVE InsertRanked(_, _)
InsertRanked(sorted, e) ==
    IF sorted = <<>> THEN <<e>>
    ELSE IF RanksBefore(e, sorted[1]) THEN <<e>> \o sorted
    ELSE <<sorted[1]>> \o InsertRanked(Tail(sorted), e)

\* the multi-key sort is a lexsort: stable
RECURSIVE SortRanked(_)
SortRanked(events) ==
    IF events = <<>> THEN <<>>
    ELSE InsertRanked(SortRanked(SubSeq(events, 1, Len(events) - 1)), events[Len(events)])

DfTickers(df) == OrderNames({df[i].ticker : i \in 1..Len(df)})

\* find_cluster_buys from line 274 on: df is the first query's result, base_df the
\* second's, in the order the store returned its rows
DetectFrom(df, base_df, entities, p) ==
    IF df = <<>> \/ base_df = <<>>
    THEN [events |-> <<>>, entities |-> entities]
    ELSE LET classified == classify_insiders(base_df, entities)
             merged_records == MergedRecords(DfTickers(df), df, base_df, classified)
         IN  [events |-> SortRanked(SelectSeq(merged_records,
                                              LAMBDA e : PassesPostFilters(e, p))),
              entities |-> classified]

\* DataFrame.head(n)
DfHead(s, n) ==
    IF n >= 0 THEN SubSeq(s, 1, IF n < Len(s) THEN n ELSE Len(s))
    ELSE SubSeq(s, 1, IF Len(s) + n > 0 THEN Len(s) + n ELSE 0)

RowOrders(S) ==
    {f \in [1..Cardinality(S) -> S] : \A i, j \in 1..Cardinality(S) : f[i] = f[j] => i = j}

\* The orders in which base_sql, a query without ORDER BY, can return the rows
\* of S.  The frame code reads the row order only within the rows of one
\* normalized name (drop_duplicates keeps the first row of a name, _first_nonempty
\* the first non-blank value of a name's group; counts, sums, max and the sorted
\* group keys do not depend on it), so the orders are taken up to the order of
\* the names: every order of each name's rows, the names one after the other.
RECURSIVE OrderingsByName(_, _)
OrderingsByName(names, S) ==
    IF names = <<>> THEN {<<>>}
    ELSE {g \o rest : g \in RowOrders({r \in S : NormalizedName(r) = names[1]}),
                      rest \in OrderingsByName(Tail(names), S)}

Orderings(S) == OrderingsByName(OrderNames({NormalizedName(r) : r \in S}), S)

----------------------------------------------------------------------------
(* The detection service: the loader appends rows, then the CLI calls      *)
(* get_top_cluster_buys, twice at most between two changes of the data.    *)

VARIABLES
    insider_buy_signals,   \* the buy-signal table: a set of transactions
    insider_exclusions,    \* the exclusion table: {pattern, active} rows
    insider_entities,      \* the classification cache: committed InsiderEntity rows
    params,                \* the arguments the CLI passes on every call
    last,                  \* the latest get_top_cluster_buys call
    prev,                  \* the call before it, if any
    sweep,                 \* the interval sweep of one ticker, step by step
    uncommitted,           \* InsiderEntity rows inserted and not yet committed
    session,               \* each concurrent caller of get_or_create_insider_entity
    eval,                  \* one function evaluated on its own: arguments and result
    loader                 \* the quarter loader: its log, the staging tables, its run

vars == <<insider_buy_signals, insider_exclusions, insider_entities, params, last,
          prev, sweep, uncommitted, session, eval, loader>>

\* how many rows the loader delivers
MaxRows == 3

NoCall ==
    [called |-> FALSE, raised |-> FALSE, error |-> "none", latest_date |-> NULL,
     base |-> {}, df |-> <<>>, events |-> <<>>, top |-> <<>>]

OnePerson == [DefaultParams EXCEPT !.min_insiders = 1]

\* the argument sets and exclusion tables the CLI is run with
Scenarios ==
    { [params |-> DefaultParams, exclusions |-> {}],
      [params |-> [DefaultParams EXCEPT !.window_days = 3], exclusions |-> {}],
      [params |-> OnePerson, exclusions |-> {}],
      [params |-> [OnePerson EXCEPT !.window_days = 3], exclusions |-> {}],
      [params |-> [OnePerson EXCEPT !.window_days = 5], exclusions |-> {}],
      [params |-> [OnePerson EXCEPT !.window_days = 1], exclusions |-> {}],
      [params |-> [OnePerson EXCEPT !.window_days = 0, !.min_insiders = 0], exclusions |-> {}],
      [params |-> [OnePerson EXCEPT !.window_days = 0 - 1, !.min_insiders = 0], exclusions |-> {}],
      [params |-> [OnePerson EXCEPT !.lookback_days = 5], exclusions |-> {}],
      [params |-> [OnePerson EXCEPT !.min_total_value = 10], exclusions |-> {}],
      [params |-> [OnePerson EXCEPT !.min_trade_value = 5], exclusions |-> {}],
      [params |-> [OnePerson EXCEPT !.ticker = ZETA], exclusions |-> {}],
      [params |-> [OnePerson EXCEPT !.min_role_score = 4], exclusions |-> {}],
      [params |-> [OnePerson EXCEPT !.min_people = 2], exclusions |-> {}],
      [params |-> [OnePerson EXCEPT !.max_fund_ratio = 0], exclusions |-> {}],
      [params |-> [OnePerson EXCEPT !.max_fund_ratio = 50], exclusions |-> {}],
      [params |-> [OnePerson EXCEPT !.min_cluster_score = 6 * SCORE_UNIT], exclusions |-> {}],
      [params |-> [OnePerson EXCEPT !.limit = 1], exclusions |-> {}],
      [params |-> OnePerson,
       exclusions |-> {[pattern |-> PATTERN_VANGUARD, active |-> TRUE]}],
      [params |-> OnePerson,
       exclusions |-> {[pattern |-> PATTERN_VANGUARD, active |-> FALSE]}],
      [params |-> [OnePerson EXCEPT !.use_exclusions = FALSE],
       exclusions |-> {[pattern |-> PATTERN_VANGUARD, active |-> TRUE]}],
      [params |-> OnePerson,
       exclusions |-> {[pattern |-> PATTERN_B_BACKSLASH_C, active |-> TRUE]}] }

NoSweep == [ticker_windows |-> {}, intervals |-> <<>>, merged_intervals |-> <<>>, pos |-> 0]

NoSessions == <<>>

\* no function is being evaluated on its own
NoEval == [fn |-> "none", done |-> FALSE]

\* the quarter loader has not been started
NoLoader == [pc |-> "off"]

Init ==
    /\ insider_buy_signals = {}
    /\ insider_entities = {}
    /\ \E sc \in Scenarios : params = sc.params /\ insider_exclusions = sc.exclusions
    /\ last = NoCall
    /\ prev = NoCall
    /\ sweep = NoSweep
    /\ uncommitted = {}
    /\ session = NoSessions
    /\ eval = NoEval
    /\ loader = NoLoader

\* the quarter loader appends a transaction; the loads come before the calls
Ingest(row) ==
    /\ ~last.called
    /\ Cardinality(insider_buy_signals) < MaxRows
    /\ row \notin insider_buy_signals
    /\ insider_buy_signals' = insider_buy_signals \cup {row}
    /\ UNCHANGED <<insider_exclusions, insider_entities, params, last, prev,
                   sweep, uncommitted, session, eval, loader>>

\* get_top_cluster_buys(limit, **kwargs), find_cluster_buys included
GetTopClusterBuys ==
    /\ ~prev.called
    /\ LET latest_date == get_latest_filing_date(insider_buy_signals)
       IN  IF latest_date = NULL
           THEN /\ last' = [NoCall EXCEPT !.called = TRUE, !.raised = TRUE,
                                         !.error = "RuntimeError"]
                /\ UNCHANGED insider_entities
           ELSE LET base == BaseRows(insider_buy_signals, insider_exclusions, params, latest_date)
                    df == RawWindowsDf(base, params)
                IN  \E base_df \in Orderings(base) :
                       IF df # <<>> /\ base_df # <<>> /\ ClassifyRaises(base_df)
                       THEN /\ last' = [NoCall EXCEPT !.called = TRUE, !.raised = TRUE,
                                                     !.error = "ValueError"]
                            /\ UNCHANGED insider_entities
                       ELSE LET out == DetectFrom(df, base_df, insider_entities, params)
                            IN  /\ last' = [called |-> TRUE, raised |-> FALSE,
                                            error |-> "none",
                                            latest_date |-> latest_date, base |-> base,
                                            df |-> df, events |-> out.events,
                                            top |-> DfHead(out.events, params.limit)]
                                /\ insider_entities' = out.entities
    /\ prev' = last
    /\ UNCHANGED <<insider_buy_signals, insider_exclusions, params, sweep,
                   uncommitted, session, eval, loader>>

Next ==
    \/ \E row \in TxnUniverse : Ingest(row)
    \/ GetTopClusterBuys

Spec == Init /\ [][Next]_vars

\* the argument sets of the runs over InsiderUniverse
InsiderScenarios ==
    { [params |-> DefaultParams, exclusions |-> {}],
      [params |-> OnePerson, exclusions |-> {}],
      [params |-> [OnePerson EXCEPT !.min_role_score = 4], exclusions |-> {}] }

InitInsiders ==
    /\ insider_buy_signals = {}
    /\ insider_entities = {}
    /\ \E sc \in InsiderScenarios : params = sc.params /\ insider_exclusions = sc.exclusions
    /\ last = NoCall
    /\ prev = NoCall
    /\ sweep = NoSweep
    /\ uncommitted = {}
    /\ session = NoSessions
    /\ eval = NoEval
    /\ loader = NoLoader

NextInsiders ==
    \/ \E row \in InsiderUniverse : Ingest(row)
    \/ GetTopClusterBuys

SpecInsiders == InitInsiders /\ [][NextInsiders]_vars

----------------------------------------------------------------------------
(* Properties of the detection service.                                    *)

Returned == last.called /\ ~last.raised

\* the transactions of the pool of one ticker dated within [start, end]
PoolIn(ticker, start, end) ==
    {r \in last.base : /\ r.ticker = ticker
                       /\ r.transaction_date >= start
                       /\ r.transaction_date <= end}

RECURSIVE PoolSum(_, _)
PoolSum(S, col) ==
    IF S = {} THEN 0
    ELSE LET r == CHOOSE x \in S : TRUE
         IN  Coalesce0(r[col]) + PoolSum(S \ {r}, col)

\* the raw windows of df that lie inside the interval of event e
WindowsInside(e) ==
    {i \in 1..Len(last.df) : /\ last.df[i].ticker = e.ticker
                             /\ last.df[i].window_start >= e.window_start
                             /\ last.df[i].window_end <= e.window_end}

\* C2: no double counting.  Every returned event's num_trades, total_shares and
\* total_value are the count and the sums over the qualifying transactions of its
\* ticker dated within [window_start, window_end], each transaction once.
C2_NoDoubleCounting ==
    Returned =>
        \A i \in 1..Len(last.events) :
            LET e == last.events[i]
                pool == PoolIn(e.ticker, e.window_start, e.window_end)
            IN  /\ e.num_trades = Cardinality(pool)
                /\ e.total_value = PoolSum(pool, "total_value")
                /\ e.total_shares = PoolSum(pool, "shares")

\* C2 witness: an event merged from several raw windows that share transactions,
\* so that adding up the raw windows' figures would count a transaction twice
C2_Witness ==
    /\ Returned
    /\ \E i \in 1..Len(last.events) :
          LET e == last.events[i]
              inside == WindowsInside(e)
          IN  /\ Cardinality(inside) >= 2
              /\ \E j, k \in inside :
                    /\ j # k
                    /\ last.df[j].num_trades + last.df[k].num_trades > e.num_trades

\* C5: idempotence.  The second of two consecutive calls with the same arguments
\* over unchanged data returns the events of the first, in the same order.
C5_Idempotent ==
    (prev.called /\ last.called) => (prev.events = last.events /\ prev.top = last.top)

ZetaPool ==
    { Txn(ZETA, NAME_A, REL_OFFICER, TITLE_CFO, 0, 0, 1, 1),
      Txn(ZETA, NAME_B, REL_DIRECTOR, BLANK, 5, 5, 1, 9),
      Txn(ZETA, NAME_C, BLANK, BLANK, 9, 9, 2, 2) }

\* the ZETA scenario: the pool of ZETA is the three purchases on days 0, 5, 9 and
\* no threshold or post-filter is set that removes a window or an event
ZetaScenario(window_days) ==
    /\ Returned
    /\ {r \in last.base : r.ticker = ZETA} = ZetaPool
    /\ params = [OnePerson EXCEPT !.window_days = window_days]

ZetaEvents == SelectSeq(last.events, LAMBDA e : e.ticker = ZETA)

ZetaOneInterval ==
    /\ Len(ZetaEvents) = 1
    /\ ZetaEvents[1].window_start = 0 - 9
    /\ ZetaEvents[1].window_end = 9
    /\ ZetaEvents[1].num_trades = 3
    /\ ZetaEvents[1].num_insiders = 3

\* C6 as the specification states it: one interval [day0-9, day9] with window_days = 10, exactly two
\* intervals with window_days = 3
C6_AsStated ==
    /\ ZetaScenario(10) => ZetaOneInterval
    /\ ZetaScenario(3) => Len(ZetaEvents) = 2

\* C6: the ZETA scenario as the code runs it.  With window_days = 10 there is one
\* interval [day0-9, day9] holding the three trades; with window_days = 3 there
\* are exactly three intervals, [d-2, d] for d = day 0, 5, 9, one trade each.
C6_ZetaScenario ==
    /\ ZetaScenario(10) => ZetaOneInterval
    /\ ZetaScenario(3) =>
          /\ Len(ZetaEvents) = 3
          /\ {<<ZetaEvents[i].window_start, ZetaEvents[i].window_end, ZetaEvents[i].num_trades>>
                : i \in 1..3} = {<<0 - 2, 0, 1>>, <<3, 5, 1>>, <<7, 9, 1>>}

\* C6 witness: the scenario ran with window_days = 3 and gave three intervals
C6_Witness == ZetaScenario(3) /\ Len(ZetaEvents) = 3

\* (cluster_score desc, role_score desc, num_insiders desc, total_value desc,
\* num_fund_like asc) as one tuple to compare ascending
RankKey(e) ==
    <<0 - e.cluster_score, 0 - e.role_score, 0 - e.num_insiders, 0 - e.total_value,
      e.num_fund_like>>

RECURSIVE LexLeq(_, _)
LexLeq(a, b) ==
    IF a = <<>> THEN TRUE
    ELSE IF a[1] # b[1] THEN a[1] < b[1]
    ELSE LexLeq(Tail(a), Tail(b))

C8_TopByTotalValue ==
    Returned =>
        \A i \in 1..(Len(last.top) - 1) :
            last.top[i].total_value >= last.top[i + 1].total_value

MaxFilingDate == SetMax({s.filing_date : s \in insider_buy_signals})
MaxTransactionDate == SetMax({s.transaction_date : s \in insider_buy_signals})

\* the scope filters other than the date range
PassesOtherScopeFilters(s) ==
    /\ s.ticker # NONE_TICKER
    /\ (params.ticker # NoTicker => s.ticker = params.ticker)
    /\ (params.min_trade_value # 0 => Coalesce0(s.total_value) >= params.min_trade_value)
    /\ (params.use_exclusions =>
          \A e \in insider_exclusions :
              e.active => ~ILikeContains(s.insider_name, e.pattern))

InScopeFrom(latest) ==
    {s \in insider_buy_signals :
        /\ s.transaction_date >= latest - params.lookback_days
        /\ s.transaction_date <= latest
        /\ PassesOtherScopeFilters(s)}

\* the transactions counted in a raw window or an event
Contributing ==
    {s \in insider_buy_signals :
        \/ \E i \in 1..Len(last.df) :
              /\ s \in last.base
              /\ s.ticker = last.df[i].ticker
              /\ s.transaction_date >= last.df[i].window_start
              /\ s.transaction_date <= last.df[i].window_end
        \/ \E i \in 1..Len(last.events) :
              s \in PoolIn(last.events[i].ticker, last.events[i].window_start,
                           last.events[i].window_end)}

\* C9 as the specification states it: the anchor is the latest transaction_date, the scope is
\* [latest - lookback_days, latest], and the row of the latest transaction_date
\* is in scope.
C9_AsStated ==
    Returned =>
        /\ last.latest_date = MaxTransactionDate
        /\ last.base = InScopeFrom(MaxTransactionDate)
        /\ \A s \in insider_buy_signals :
              (s.transaction_date = MaxTransactionDate /\ PassesOtherScopeFilters(s))
                  => s \in last.base

\* C9: the scope as the code sets it.  The anchor is the latest filing_date of
\* the store; the transactions in scope are exactly those dated within
\* [latest - lookback_days, latest] that pass the ticker, exclusion and
\* trade-value filters, and only they are counted in a raw window or an event.
C9_ScopeAnchor ==
    Returned =>
        /\ last.latest_date = MaxFilingDate
        /\ last.base = InScopeFrom(MaxFilingDate)
        /\ Contributing \subseteq InScopeFrom(MaxFilingDate)
        /\ \A i \in 1..Len(last.events) :
              last.events[i].num_trades =
                  Cardinality({s \in InScopeFrom(MaxFilingDate) :
                                  /\ s.ticker = last.events[i].ticker
                                  /\ s.transaction_date >= last.events[i].window_start
                                  /\ s.transaction_date <= last.events[i].window_end})

\* C9 witness: a call that returns an event while the date range keeps a
\* delivered transaction out of scope
C9_Witness ==
    /\ Returned
    /\ last.events # <<>>
    /\ \E s \in insider_buy_signals :
          /\ PassesOtherScopeFilters(s)
          /\ s.transaction_date < last.latest_date - params.lookback_days

\* the insiders of event e that the cache holds as fund-like
FundLikeIn(e) ==
    {NormalizedName(r) : r \in PoolIn(e.ticker, e.window_start, e.window_end)}
        \cap {x.normalized_name : x \in {y \in insider_entities : y.is_fund_like}}

\* C10: post-filters.  Every returned event meets every filter that was supplied,
\* on the figures of its merged interval; with max_fund_ratio = 0 no returned
\* event holds a transaction of a fund-like insider.
C10_PostFilters ==
    Returned =>
        \A i \in 1..Len(last.events) :
            LET e == last.events[i]
            IN  /\ e.num_insiders >= params.min_insiders
                /\ (params.min_people # NONE => e.num_insiders >= params.min_people)
                /\ e.role_score >= params.min_role_score
                /\ (params.min_cluster_score # NONE =>
                        e.cluster_score >= params.min_cluster_score)
                /\ (params.max_fund_ratio # NONE =>
                        e.num_fund_like * 100
                            <= params.max_fund_ratio * MaxOf(e.num_total_insiders, 1))
                /\ (params.max_fund_ratio = 0 =>
                        e.num_fund_like = 0 /\ FundLikeIn(e) = {})

\* C10 witness: with max_fund_ratio = 0, VANGUARD GROUP INC bought beside a person
\* in a window that passed the raw thresholds, that window is not returned, and
\* another event is
C10_Witness ==
    /\ Returned
    /\ params.max_fund_ratio = 0
    /\ last.events # <<>>
    /\ \E r \in last.base :
          /\ r.insider_name = NAME_VANGUARD
          /\ \E x \in insider_entities :
                x.normalized_name = NormalizedName(r) /\ x.is_fund_like
          /\ \E q \in last.base :
                /\ q.ticker = r.ticker
                /\ q.transaction_date = r.transaction_date
                /\ q.insider_name # r.insider_name
          /\ \E i \in 1..Len(last.df) :
                /\ last.df[i].ticker = r.ticker
                /\ last.df[i].window_end = r.transaction_date
          /\ \A i \in 1..Len(last.events) : last.events[i].ticker # r.ticker

Tickers == {r.ticker : r \in TxnUniverse} \ {NONE_TICKER}

\* the transactions in scope of one ticker
TickerPool(ticker) == {r \in last.base : r.ticker = ticker}

EventsOf(ticker) == SelectSeq(last.events, LAMBDA e : e.ticker = ticker)

\* the rows that can anchor the latest date
AnchorRows == {s \in insider_buy_signals : s.filing_date # NULL}

\* C11: minimum-insider threshold.  A call over a store that holds a row with a
\* filing date does not raise, and a ticker whose pool holds fewer than
\* min_insiders distinct insiders, by normalized name, has no event in the
\* result.
C11_MinInsiders ==
    (last.called /\ AnchorRows # {}) =>
        /\ ~last.raised
        /\ \A t \in Tickers :
              Cardinality({NormalizedName(r) : r \in TickerPool(t)}) < params.min_insiders
                  => EventsOf(t) = <<>>

\* C11 witness: min_insiders = 2, one ticker with a single transaction in scope
\* and no event, beside a ticker that has an event
C11_Witness ==
    /\ Returned
    /\ params.min_insiders = 2
    /\ \E t \in Tickers : Cardinality(TickerPool(t)) = 1 /\ EventsOf(t) = <<>>
    /\ last.events # <<>>

\* C12: output interval invariant.  For every window_days, zero and negative
\* ones included, each returned event has window_start <= window_end and two
\* returned events of one ticker have no day in common.
C12_IntervalInvariant ==
    Returned =>
        \A i, j \in 1..Len(last.events) :
            /\ last.events[i].window_start <= last.events[i].window_end
            /\ (i # j /\ last.events[i].ticker = last.events[j].ticker) =>
                  \/ last.events[i].window_end < last.events[j].window_start
                  \/ last.events[j].window_end < last.events[i].window_start

\* C12 witness: two events of one ticker, one of them merged from raw windows
\* that touch
C12_Witness ==
    /\ Returned
    /\ \E i, j \in 1..Len(last.events) :
          /\ i # j
          /\ last.events[i].ticker = last.events[j].ticker
          /\ Cardinality(WindowsInside(last.events[i])) >= 2

\* a call with window_days <= 0 over transactions in scope
NonPositiveWindowCall ==
    Returned /\ params.window_days <= 0 /\ last.base # {}

\* the distinct insiders, by normalized name, with a transaction in event e
InsidersIn(e) ==
    {NormalizedName(r) : r \in PoolIn(e.ticker, e.window_start, e.window_end)}

\* C13: insider partition.  In every event the distinct insiders of the interval
\* fall into the fund-like ones and the people: num_fund_like counts the former,
\* num_insiders the latter, num_total_insiders all of them, so
\* num_total_insiders = num_insiders + num_fund_like.
C13_InsiderPartition ==
    Returned =>
        \A i \in 1..Len(last.events) :
            LET e == last.events[i]
                all == InsidersIn(e)
                funds == FundLikeIn(e)
            IN  /\ funds \subseteq all
                /\ e.num_total_insiders = Cardinality(all)
                /\ e.num_fund_like = Cardinality(funds)
                /\ e.num_insiders = Cardinality(all \ funds)
                /\ e.num_total_insiders = e.num_insiders + e.num_fund_like
                /\ e.num_insiders <= e.num_total_insiders

\* C13 witness: an event that holds a fund-like insider beside two people
C13_Witness ==
    /\ Returned
    /\ \E i \in 1..Len(last.events) :
          /\ last.events[i].num_fund_like = 1
          /\ last.events[i].num_insiders = 2

\* insider_name contains pattern, letter case aside
ContainsIgnoringCase(name, pattern) == Contains(Lower(name), Lower(pattern))

\* the pattern holds a character that LIKE reads as a wildcard or an escape
HasLikeMeta(pattern) == \E i \in 1..Len(pattern) : pattern[i] \in {"%", "_", "\\"}

\* the transactions whose insider_name contains an active pattern
ContainingActivePattern ==
    {s \in insider_buy_signals :
        \E e \in insider_exclusions :
            e.active /\ ContainsIgnoringCase(s.insider_name, e.pattern)}

\* the transactions the exclusions clause removes: a pattern of plain characters
\* by containment, any other as the LIKE pattern it is
MatchingActivePattern ==
    {s \in insider_buy_signals :
        \E e \in insider_exclusions :
            /\ e.active
            /\ IF HasLikeMeta(e.pattern)
               THEN ILikeContains(s.insider_name, e.pattern)
               ELSE ContainsIgnoringCase(s.insider_name, e.pattern)}

\* the transactions that pass the date, ticker and trade-value filters
PassesDateTickerValueFilters ==
    {s \in insider_buy_signals :
        /\ s.transaction_date >= MaxFilingDate - params.lookback_days
        /\ s.transaction_date <= MaxFilingDate
        /\ s.ticker # NONE_TICKER
        /\ (params.ticker # NoTicker => s.ticker = params.ticker)
        /\ (params.min_trade_value # 0 => Coalesce0(s.total_value) >= params.min_trade_value)}

KeptIn(kept, ticker, start, end) ==
    {s \in kept : /\ s.ticker = ticker
                  /\ s.transaction_date >= start
                  /\ s.transaction_date <= end}

\* every raw window and every event counts the transactions of `kept`, all of
\* them and no other, and no label names an insider that only removed
\* transactions carry
CountsExactly(kept, removed) ==
    /\ \A i \in 1..Len(last.df) :
          LET w == last.df[i]
              inside == KeptIn(kept, w.ticker, w.window_start, w.window_end)
          IN  /\ w.num_trades = Cardinality(inside)
              /\ w.num_insiders = Cardinality({s.insider_name : s \in inside})
              /\ w.total_shares = PoolSum(inside, "shares")
              /\ w.total_value = PoolSum(inside, "total_value")
    /\ \A i \in 1..Len(last.events) :
          LET e == last.events[i]
              inside == KeptIn(kept, e.ticker, e.window_start, e.window_end)
          IN  /\ e.num_trades = Cardinality(inside)
              /\ e.total_shares = PoolSum(inside, "shares")
              /\ e.total_value = PoolSum(inside, "total_value")
              /\ e.num_total_insiders = Cardinality({NormalizedName(s) : s \in inside})
              /\ \A s \in removed :
                    (\A k \in inside : NormalizedName(k) # NormalizedName(s)) =>
                        /\ ~Contains(e.top_insiders, NormalizedName(s))
                        /\ ~Contains(e.fund_like_insiders, NormalizedName(s))

\* C18 as the specification states it: with use_exclusions on, a transaction
\* whose insider_name contains an active pattern, letter case aside, is counted
\* nowhere, whatever characters the pattern holds.
C18_AsStated ==
    Returned =>
        LET removed == IF params.use_exclusions THEN ContainingActivePattern ELSE {}
        IN  CountsExactly(PassesDateTickerValueFilters \ removed, removed)

\* C18: exclusions as the code runs them.  The pattern is the middle of a LIKE
\* pattern: with use_exclusions on, a transaction whose insider_name matches
\* '%' || pattern || '%' for an active pattern, letter case aside, is counted in
\* no raw window and in no event's num_trades, totals, insider counts or labels;
\* for a pattern without %, _ and backslash that is every transaction whose
\* insider_name contains the pattern.  Inactive patterns remove nothing, and
\* with use_exclusions off the exclusion list removes nothing.
C18_Exclusions ==
    Returned =>
        LET removed == IF params.use_exclusions THEN MatchingActivePattern ELSE {}
        IN  CountsExactly(PassesDateTickerValueFilters \ removed, removed)

\* C18 witness: use_exclusions on, a transaction whose insider_name contains an
\* active pattern dated inside a returned event of its ticker, and not counted
C18_Witness ==
    /\ Returned
    /\ params.use_exclusions
    /\ \E s \in ContainingActivePattern \cap MatchingActivePattern :
          \E i \in 1..Len(last.events) :
              /\ last.events[i].ticker = s.ticker
              /\ s.transaction_date >= last.events[i].window_start
              /\ s.transaction_date <= last.events[i].window_end
              /\ s \in PassesDateTickerValueFilters

\* a call with use_exclusions on and an active pattern that holds a backslash,
\* over a store with a transaction whose insider_name contains the pattern
BackslashPatternCall ==
    /\ Returned
    /\ params.use_exclusions
    /\ \E s \in ContainingActivePattern \ MatchingActivePattern :
          s \in PassesDateTickerValueFilters

\* a call with only an inactive pattern, or with use_exclusions off, over a
\* store with a transaction whose insider_name contains the pattern, which an
\* event counts
NothingRemovedCall ==
    /\ Returned
    /\ \E s \in insider_buy_signals : \E e \in insider_exclusions :
          /\ ContainsIgnoringCase(s.insider_name, e.pattern)
          /\ (~e.active \/ ~params.use_exclusions)
          /\ \E i \in 1..Len(last.events) :
                s \in PoolIn(last.events[i].ticker, last.events[i].window_start,
                             last.events[i].window_end)


\* C19: empty versus fatal.  A call raises exactly when the store has no row
\* that can anchor the latest date: no row at all, or none with a filing date.
\* In every other case it returns, and where a stage yields nothing (no
\* transaction in scope, no raw window over the thresholds, no transaction
\* inside any raw window, every event removed by the post-filters) what it
\* returns is the empty result.
C19_EmptyVersusFatal ==
    last.called =>
        /\ last.raised <=> (AnchorRows = {})
        /\ ~last.raised =>
              /\ (last.base = {} => last.df = <<>>)
              /\ (last.df = <<>> => last.events = <<>>)
              /\ (last.events = <<>> => last.top = <<>>)
              /\ (\A i \in 1..Len(last.df) :
                      PoolIn(last.df[i].ticker, last.df[i].window_start,
                             last.df[i].window_end) = {})
                    => last.events = <<>>

\* C19 witness: a store with an anchor row, raw windows over the thresholds,
\* every event removed by the post-filters, and the empty result returned
C19_Witness ==
    /\ Returned
    /\ AnchorRows # {}
    /\ last.df # <<>>
    /\ last.events = <<>>
    /\ last.top = <<>>

\* a call over a store that holds rows, none with a filing date: it raises
UnanchoredCall == last.called /\ last.raised /\ insider_buy_signals # {}

\* a call over the empty store: it raises
EmptyStoreCall == last.called /\ last.raised /\ insider_buy_signals = {}

\* a call that finds no transaction in scope and returns the empty result
EmptyScopeCall == Returned /\ last.base = {} /\ last.events = <<>>

\* a call that finds transactions in scope, no raw window over the thresholds,
\* and returns the empty result
NoRawWindowCall == Returned /\ last.base # {} /\ last.df = <<>> /\ last.events = <<>>


\* the transactions of the pool inside the raw window anchored at b
AnchoredAt(b) ==
    KeptIn(last.base, b.ticker, b.transaction_date - (params.window_days - 1),
           b.transaction_date)

\* C21: missing values default to zero at every stage.  A missing total_value
\* or shares counts as 0 in the raw windows and in the recomputation over the
\* merged intervals: every raw window of one day or more whose insiders reach
\* min_insiders and whose values, a missing one taken as 0, sum to
\* min_total_value or more is kept, with that sum as its total_value, and every
\* event's totals are such sums; a window all of whose transactions lack
\* total_value has total_value 0 and passes min_total_value = 0.
C21_MissingIsZero ==
    Returned =>
        /\ \A b \in last.base :
              (/\ params.window_days >= 1
               /\ Cardinality({s.insider_name : s \in AnchoredAt(b)}) >= params.min_insiders
               /\ PoolSum(AnchoredAt(b), "total_value") >= params.min_total_value)
                 => \E i \in 1..Len(last.df) :
                       /\ last.df[i].ticker = b.ticker
                       /\ last.df[i].window_end = b.transaction_date
                       /\ last.df[i].total_value = PoolSum(AnchoredAt(b), "total_value")
                       /\ last.df[i].total_shares = PoolSum(AnchoredAt(b), "shares")
        /\ \A i \in 1..Len(last.events) :
              LET e == last.events[i]
                  pool == PoolIn(e.ticker, e.window_start, e.window_end)
              IN  /\ e.total_value = PoolSum(pool, "total_value")
                  /\ e.total_shares = PoolSum(pool, "shares")

\* what the code does give: a missing value counts as 0 beside a value that is
\* there, in a raw window and in an event, and fails no call; a raw window
\* without any value has no total and is dropped, whatever min_total_value is
C21_MissingBesideValue ==
    Returned =>
        /\ \A i \in 1..Len(last.df) :
              LET w == last.df[i]
                  pool == PoolIn(w.ticker, w.window_start, w.window_end)
              IN  /\ \E s \in pool : s.total_value # NULL
                  /\ w.total_value = PoolSum(pool, "total_value")
        /\ \A b \in last.base :
              (\A s \in AnchoredAt(b) : s.total_value = NULL) =>
                  ~\E i \in 1..Len(last.df) :
                       /\ last.df[i].ticker = b.ticker
                       /\ last.df[i].window_end = b.transaction_date
        /\ \A i \in 1..Len(last.events) :
              LET e == last.events[i]
                  pool == PoolIn(e.ticker, e.window_start, e.window_end)
              IN  e.total_value = PoolSum(pool, "total_value")

\* a call with min_total_value = 0 over a pool with a transaction that lacks
\* total_value and is alone in its raw window: the window is dropped
AllMissingWindowCall ==
    /\ Returned
    /\ params.min_total_value = 0
    /\ params.min_insiders <= 1
    /\ params.window_days >= 1
    /\ \E b \in last.base :
          /\ \A s \in AnchoredAt(b) : s.total_value = NULL
          /\ ~\E i \in 1..Len(last.df) :
                /\ last.df[i].ticker = b.ticker
                /\ last.df[i].window_end = b.transaction_date

\* an event that counts a transaction without total_value beside one with a
\* value
MissingBesideValueCall ==
    /\ Returned
    /\ \E i \in 1..Len(last.events) :
          LET pool == PoolIn(last.events[i].ticker, last.events[i].window_start,
                             last.events[i].window_end)
          IN  /\ \E s \in pool : s.total_value = NULL
              /\ \E s \in pool : s.total_value # NULL


\* the non-fund insiders, by normalized name, with a transaction in event e
PeopleIn(e) == InsidersIn(e) \ FundLikeIn(e)

\* the rows of insider n in event e
RowsOfIn(n, e) ==
    {r \in PoolIn(e.ticker, e.window_start, e.window_end) : NormalizedName(r) = n}

\* the title of insider n in event e: the non-blank title its rows carry (the
\* rows of one insider carry at most one here), blank if none does
TitleOfIn(n, e) ==
    LET titles == {Strip(r.insider_title) : r \in RowsOfIn(n, e)} \ {<<>>}
    IN  IF titles = {} THEN <<>> ELSE CHOOSE t \in titles : TRUE

\* compute_insider_role_weight of insider n in event e
WeightOfIn(n, e) ==
    compute_insider_role_weight(
        TitleOfIn(n, e),
        \E r \in RowsOfIn(n, e) : Contains(Lower(r.insider_relationship),
                                           <<"d", "i", "r", "e", "c", "t", "o", "r">>),
        \E r \in RowsOfIn(n, e) : Contains(Lower(r.insider_relationship),
                                           <<"o", "f", "f", "i", "c", "e", "r">>))

RECURSIVE WeightSumIn(_, _)
WeightSumIn(names, e) ==
    IF names = {} THEN 0
    ELSE LET n == CHOOSE x \in names : TRUE
         IN  WeightOfIn(n, e) + WeightSumIn(names \ {n}, e)

KEYS_CFO == {<<"C", "F", "O">>, <<"C", "H", "I", "E", "F", " ", "F", "I", "N", "A", "N", "C", "I", "A", "L", " ", "O", "F", "F", "I", "C", "E", "R">>}
KEYS_GC == {<<"G", "E", "N", "E", "R", "A", "L", " ", "C", "O", "U", "N", "S", "E", "L">>, <<"C", "H", "I", "E", "F", " ", "L", "E", "G", "A", "L", " ", "O", "F", "F", "I", "C", "E", "R">>}
KEYS_CEO == {<<"C", "E", "O">>, <<"C", "H", "I", "E", "F", " ", "E", "X", "E", "C", "U", "T", "I", "V", "E", " ", "O", "F", "F", "I", "C", "E", "R">>}

\* a non-fund insider of event e has a title that holds one of the keys
PersonWithTitle(e, keys) ==
    \E n \in PeopleIn(e) : \E k \in keys : Contains(Upper(TitleOfIn(n, e)), k)

\* C22: fund-like insiders carry no role signal.  In every event role_score is
\* the sum of compute_insider_role_weight over the non-fund insiders only, and
\* CFO, GC and CEO are in key_roles exactly when a non-fund insider has such a
\* title; the title of a fund-like insider changes neither.
C22_NoRoleSignalFromFunds ==
    Returned =>
        \A i \in 1..Len(last.events) :
            LET e == last.events[i]
            IN  /\ e.role_score = WeightSumIn(PeopleIn(e), e)
                /\ e.has_cfo <=> PersonWithTitle(e, KEYS_CFO)
                /\ e.has_gc <=> PersonWithTitle(e, KEYS_GC)
                /\ e.has_ceo <=> PersonWithTitle(e, KEYS_CEO)
                /\ e.key_roles = (IF PersonWithTitle(e, KEYS_CFO) THEN <<"CFO">> ELSE <<>>)
                                 \o (IF PersonWithTitle(e, KEYS_GC) THEN <<"GC">> ELSE <<>>)
                                 \o (IF PersonWithTitle(e, KEYS_CEO) THEN <<"CEO">> ELSE <<>>)

\* C22 witness: an event whose only insider with the title CFO is fund-like,
\* beside a director: role_score is the director's weight and key_roles is
\* empty
C22_Witness ==
    /\ Returned
    /\ \E i \in 1..Len(last.events) :
          LET e == last.events[i]
          IN  /\ \E n \in FundLikeIn(e) : Contains(Upper(TitleOfIn(n, e)), <<"C", "F", "O">>)
              /\ PeopleIn(e) # {}
              /\ ~PersonWithTitle(e, KEYS_CFO)
              /\ e.role_score = 1
              /\ e.key_roles = <<>>


\* C23: min_total_value also holds on the output.  While no transaction has a
\* negative value, every returned event has a recomputed total_value of
\* min_total_value or more, and holds a raw window that passed the threshold.
C23_MinTotalValueOnOutput ==
    (Returned /\ \A s \in insider_buy_signals : Coalesce0(s.total_value) >= 0) =>
        \A i \in 1..Len(last.events) :
            /\ last.events[i].total_value >= params.min_total_value
            /\ \E k \in WindowsInside(last.events[i]) :
                  /\ last.df[k].total_value >= params.min_total_value
                  /\ last.df[k].total_value <= last.events[i].total_value

\* C23 witness: min_total_value above zero, a raw window under it dropped, and
\* an event returned whose interval holds more than the raw window that passed
C23_Witness ==
    /\ Returned
    /\ params.min_total_value > 0
    /\ \E b \in last.base :
          /\ PoolSum(AnchoredAt(b), "total_value") < params.min_total_value
          /\ ~\E k \in 1..Len(last.df) :
                /\ last.df[k].ticker = b.ticker
                /\ last.df[k].window_end = b.transaction_date
    /\ \E i \in 1..Len(last.events) :
          \E k \in WindowsInside(last.events[i]) :
              last.df[k].total_value < last.events[i].total_value


\* the transactions of event e whose insider name is blank or white space
BlankNamedIn(e) ==
    {r \in PoolIn(e.ticker, e.window_start, e.window_end) : NormalizedName(r) = <<>>}

\* C24: blank insider names never abort detection.  No call of
\* get_top_cluster_buys ends in the ValueError of get_or_create_insider_entity;
\* the cache gets no row for the blank name, and in every event the
\* transactions with a blank insider name count together as one insider who is
\* not fund-like.
C24_BlankNamesNeverAbort ==
    last.called =>
        /\ last.error # "ValueError"
        /\ (last.raised <=> AnchorRows = {})
        /\ \A x \in insider_entities : x.normalized_name # <<>>
        /\ \A i \in 1..Len(last.events) :
              LET e == last.events[i]
                  named == InsidersIn(e) \ {<<>>}
                  blank == IF BlankNamedIn(e) = {} THEN 0 ELSE 1
              IN  /\ e.num_total_insiders = Cardinality(named) + blank
                  /\ e.num_fund_like = Cardinality(FundLikeIn(e))
                  /\ <<>> \notin FundLikeIn(e)
                  /\ e.num_insiders = Cardinality(named \ FundLikeIn(e)) + blank

\* C24 witness: a returned event with two transactions whose insider names are
\* blank, one empty and one white space, counted as one person beside another
C24_Witness ==
    /\ Returned
    /\ \E i \in 1..Len(last.events) :
          /\ Cardinality({r.insider_name : r \in BlankNamedIn(last.events[i])}) = 2
          /\ last.events[i].num_trades = 3
          /\ last.events[i].num_insiders = 2
          /\ last.events[i].num_fund_like = 0


----------------------------------------------------------------------------
(* The interval merge of one ticker (lines 352-364), step by step, over    *)
(* any set of raw windows with start <= end.                               *)

\* how many raw windows one ticker has, and over how many days they spread
MaxWindows == 3
Days == 0..(MaxWindows + 1)

Windows == {w \in Days \X Days : w[1] <= w[2]}

WindowPairLess(a, b) == a[1] < b[1] \/ (a[1] = b[1] /\ a[2] < b[2])

\* zip(tdf["window_start"], tdf["window_end"]): df is ordered by window_start,
\* window_end
RECURSIVE ZipWindows(_)
ZipWindows(S) ==
    IF S = {} THEN <<>>
    ELSE LET m == CHOOSE x \in S : \A y \in S \ {x} : WindowPairLess(x, y)
         IN  <<m>> \o ZipWindows(S \ {m})

InitMerge ==
    /\ insider_buy_signals = {}
    /\ insider_exclusions = {}
    /\ insider_entities = {}
    /\ params = DefaultParams
    /\ last = NoCall
    /\ prev = NoCall
    /\ sweep = NoSweep
    /\ uncommitted = {}
    /\ session = NoSessions
    /\ eval = NoEval
    /\ loader = NoLoader

ServiceIdle ==
    UNCHANGED <<insider_buy_signals, insider_exclusions, insider_entities, params,
                last, prev, uncommitted, session, eval, loader>>

\* one more raw window of the ticker survives the thresholds
AddWindow(w) ==
    /\ sweep.pos = 0
    /\ Cardinality(sweep.ticker_windows) < MaxWindows
    /\ w \notin sweep.ticker_windows
    /\ sweep' = [sweep EXCEPT !.ticker_windows = @ \cup {w}]
    /\ ServiceIdle

\* line 354-355: intervals = sorted(zip(...)); merged_intervals = []
SortIntervals ==
    /\ sweep.pos = 0
    /\ sweep.ticker_windows # {}
    /\ sweep' = [sweep EXCEPT !.intervals = SortByStart(ZipWindows(sweep.ticker_windows)),
                              !.merged_intervals = <<>>,
                              !.pos = 1]
    /\ ServiceIdle

\* one iteration of `for start, end in intervals`
SweepStep ==
    /\ sweep.pos >= 1
    /\ sweep.pos <= Len(sweep.intervals)
    /\ sweep' = [sweep EXCEPT !.merged_intervals = MergeStep(@, sweep.intervals[sweep.pos]),
                              !.pos = @ + 1]
    /\ ServiceIdle

NextMerge ==
    \/ \E w \in Windows : AddWindow(w)
    \/ SortIntervals
    \/ SweepStep

SpecMerge == InitMerge /\ [][NextMerge]_vars

SweepDone == sweep.pos > Len(sweep.intervals) /\ sweep.pos >= 1

Within(w, m) == m[1] <= w[1] /\ w[2] <= m[2]

\* C1: interval merge.  After the sweep the merged intervals are pairwise apart
\* with a gap > 0, every raw window lies in exactly one of them, and each is
\* exactly the union of the raw windows it holds: it starts and ends where they
\* do and every stretch of it lies in one of them.
C1_MergeCorrect ==
    SweepDone =>
        LET M == sweep.merged_intervals
            W == sweep.ticker_windows
        IN  /\ \A i, j \in 1..Len(M) : i # j => (M[i][2] < M[j][1] \/ M[j][2] < M[i][1])
            /\ \A w \in W : Cardinality({i \in 1..Len(M) : Within(w, M[i])}) = 1
            /\ \A i \in 1..Len(M) :
                  LET held == {w \in W : Within(w, M[i])}
                  IN  /\ M[i][1] <= M[i][2]
                      /\ \E w \in held : w[1] = M[i][1]
                      /\ \E w \in held : w[2] = M[i][2]
                      /\ \A d \in M[i][1]..(M[i][2] - 1) :
                            \E w \in held : w[1] <= d /\ d + 1 <= w[2]

\* C1 witness: a finished sweep that merged two raw windows which only touch
\* and left a gap before another interval
C1_Witness ==
    /\ SweepDone
    /\ Len(sweep.merged_intervals) >= 2
    /\ \E a, b \in sweep.ticker_windows : a[2] = b[1] /\ a[1] < a[2] /\ b[1] < b[2]

----------------------------------------------------------------------------
(* get_or_create_insider_entity called from several sessions at once.  The *)
(* store is Postgres at READ COMMITTED: a statement sees what is committed *)
(* when it runs, and an INSERT whose unique key another open transaction   *)
(* has inserted waits for that transaction to end.                         *)

NumCallers == 2
Callers == 1..NumCallers

CallArgs ==
    { [insider_name |-> NAME_A, officer_title |-> TITLE_CFO,
       flags |-> FlagsOf[REL_OFFICER], insider_id |-> "0001"],
      [insider_name |-> NAME_A_LOWER, officer_title |-> BLANK,
       flags |-> FlagsOf[BLANK], insider_id |-> "0002"],
      [insider_name |-> NAME_VANGUARD, officer_title |-> BLANK,
       flags |-> FlagsOf[REL_TEN_PCT], insider_id |-> "0003"],
      [insider_name |-> NAME_VANGUARD, officer_title |-> TITLE_CFO,
       flags |-> FlagsOf[REL_OFFICER], insider_id |-> NoInsiderId],
      [insider_name |-> BLANK, officer_title |-> BLANK,
       flags |-> FlagsOf[BLANK], insider_id |-> NoInsiderId] }

NoArgs ==
    [insider_name |-> BLANK, officer_title |-> BLANK,
     flags |-> FlagsOf[BLANK], insider_id |-> NoInsiderId]

NoRow ==
    [insider_id |-> NoInsiderId, normalized_name |-> <<>>, entity_type |-> "unknown",
     is_fund_like |-> FALSE, source |-> "rules", confidence |-> 0]

\* lines 149-164: the entity a call builds when it finds no row
CallEntity ==
    [a \in CallArgs |-> NewEntity(a.insider_name, a.officer_title, a.flags, a.insider_id)]

CallName == [a \in CallArgs |-> normalize_insider_name(a.insider_name)]

IdleSession ==
    [pc |-> "idle", args |-> NoArgs, entity |-> NoRow, result |-> NoRow,
     lost |-> FALSE, error |-> "none"]

\* a variant of the lookup that never finds a row
QueryIgnoringCache(entities, normalized_name) == {}

\* session.query(InsiderEntity).filter(normalized_name == ...)
QueryByName(entities, normalized_name) ==
    {e \in entities : e.normalized_name = normalized_name}

\* a variant of the table without the unique constraint
NoUniqueConstraint(entities, row) == FALSE

\* uq_insider_entities_normalized_name
UniqueViolation(entities, row) ==
    \E e \in entities : e.normalized_name = row.normalized_name

InitCache ==
    /\ insider_buy_signals = {}
    /\ insider_exclusions = {}
    /\ insider_entities = {}
    /\ params = DefaultParams
    /\ last = NoCall
    /\ prev = NoCall
    /\ sweep = NoSweep
    /\ uncommitted = {}
    /\ session = [c \in Callers |-> IdleSession]
    /\ eval = NoEval
    /\ loader = NoLoader

FrameIdle ==
    UNCHANGED <<insider_buy_signals, insider_exclusions, params, last, prev, sweep,
                eval, loader>>

\* lines 137-164: normalize, look the name up, return a hit, else build the row
CallGetOrCreate(c, a) ==
    /\ session[c].pc \in {"idle", "returned", "raised"}
    /\ LET normalized_name == CallName[a]
           existing == QueryByName(insider_entities, normalized_name)
           call == [IdleSession EXCEPT !.args = a]
       IN  session' =
             [session EXCEPT ![c] =
                IF normalized_name = <<>>
                THEN [call EXCEPT !.pc = "raised", !.error = "ValueError"]
                ELSE IF Cardinality(existing) > 1
                THEN [call EXCEPT !.pc = "raised", !.error = "MultipleResultsFound"]
                ELSE IF existing # {}
                THEN [call EXCEPT !.pc = "returned",
                                  !.result = CHOOSE e \in existing : TRUE]
                ELSE [call EXCEPT !.pc = "flush", !.entity = CallEntity[a]]]
    /\ UNCHANGED <<insider_entities, uncommitted>>
    /\ FrameIdle

\* lines 165-167, the INSERT that session.commit() flushes: it waits while
\* another transaction holds the key, fails on a committed one
Flush(c) ==
    /\ session[c].pc = "flush"
    /\ ~UniqueViolation({u.row : u \in {v \in uncommitted : v.caller # c}},
                        session[c].entity)
    /\ IF UniqueViolation(insider_entities, session[c].entity)
       THEN /\ session' = [session EXCEPT ![c].pc = "integrity_error"]
            /\ UNCHANGED uncommitted
       ELSE /\ session' = [session EXCEPT ![c].pc = "commit"]
            /\ uncommitted' = uncommitted \cup {[caller |-> c, row |-> session[c].entity]}
    /\ UNCHANGED insider_entities
    /\ FrameIdle

\* lines 167, 179-180: COMMIT, refresh and return the new row
Commit(c) ==
    /\ session[c].pc = "commit"
    /\ insider_entities' = insider_entities \cup {session[c].entity}
    /\ uncommitted' = {u \in uncommitted : u.caller # c}
    /\ session' = [session EXCEPT ![c].pc = "returned", ![c].result = session[c].entity]
    /\ FrameIdle

\* lines 168-177: IntegrityError, rollback and a second look
RollbackRequery(c) ==
    /\ session[c].pc = "integrity_error"
    /\ LET existing == QueryByName(insider_entities, session[c].entity.normalized_name)
       IN  session' =
             [session EXCEPT ![c] =
                IF Cardinality(existing) > 1
                THEN [@ EXCEPT !.pc = "raised", !.error = "MultipleResultsFound"]
                ELSE IF existing # {}
                THEN [@ EXCEPT !.pc = "returned", !.lost = TRUE,
                               !.result = CHOOSE e \in existing : TRUE]
                ELSE [@ EXCEPT !.pc = "raised", !.error = "IntegrityError"]]
    /\ UNCHANGED <<insider_entities, uncommitted>>
    /\ FrameIdle

NextCache ==
    \/ \E c \in Callers, a \in CallArgs : CallGetOrCreate(c, a)
    \/ \E c \in Callers : Flush(c)
    \/ \E c \in Callers : Commit(c)
    \/ \E c \in Callers : RollbackRequery(c)

SpecCache == InitCache /\ [][NextCache]_vars

C4_WriteOnce ==
    [][ /\ insider_entities \subseteq insider_entities'
        /\ \A c \in Callers :
              (session[c].pc \in {"idle", "returned", "raised"} /\ session'[c] # session[c]) =>
                 \A e \in insider_entities :
                    e.normalized_name = CallName[session'[c].args] =>
                       /\ session'[c].pc = "returned"
                       /\ session'[c].result = e ]_vars

\* C4 witness: a call found the row at its first look and returned it although
\* its own title, flags and insider id would have built another row
C4_Witness ==
    \E c \in Callers :
        /\ session[c].pc = "returned"
        /\ ~session[c].lost
        /\ session[c].entity = NoRow
        /\ session[c].result # CallEntity[session[c].args]
        /\ session[c].result.insider_id # session[c].args.insider_id
        /\ session[c].args.officer_title # BLANK
        /\ session[c].args.flags.is_officer

----------------------------------------------------------------------------
(* compute_insider_role_weight on its own, over titles made of a few words *)

\* how many words a title has at most
MaxTitleWords == 2

TitleWords ==
    { <<"C", "F", "O">>,
      <<"V", "i", "c", "e", " ", "P", "r", "e", "s", "i", "d", "e", "n", "t">>,
      <<"c", "e", "o">>,
      <<"D", "i", "r", "e", "c", "t", "o", "r">>,
      <<"T", "r", "e", "a", "s", "u", "r", "e", "r">>,
      <<"C", "o", "o", "r", "d", "i", "n", "a", "t", "o", "r">> }

RECURSIVE TitlesOf(_)
TitlesOf(n) ==
    IF n = 0 THEN {<<>>}
    ELSE LET shorter == TitlesOf(n - 1)
         IN  shorter \cup {IF t = <<>> THEN w ELSE t \o <<" ">> \o w :
                              t \in shorter, w \in TitleWords}

TitleInputs == TitlesOf(MaxTitleWords)

InitRole ==
    /\ insider_buy_signals = {}
    /\ insider_exclusions = {}
    /\ insider_entities = {}
    /\ params = DefaultParams
    /\ last = NoCall
    /\ prev = NoCall
    /\ sweep = NoSweep
    /\ uncommitted = {}
    /\ session = NoSessions
    /\ loader = NoLoader
    /\ \E t \in TitleInputs, d \in BOOLEAN, o \in BOOLEAN :
          eval = [fn |-> "compute_insider_role_weight", done |-> FALSE,
                  officer_title |-> t, is_director |-> d, is_officer |-> o,
                  result |-> NULL]

EvalFrame ==
    UNCHANGED <<insider_buy_signals, insider_exclusions, insider_entities, params,
                last, prev, sweep, uncommitted, session, loader>>

RoleWeightCall ==
    /\ eval.fn = "compute_insider_role_weight"
    /\ ~eval.done
    /\ eval' = [eval EXCEPT !.done = TRUE,
                            !.result = compute_insider_role_weight(
                                           eval.officer_title, eval.is_director,
                                           eval.is_officer)]
    /\ EvalFrame

NextRole == RoleWeightCall

SpecRole == InitRole /\ [][NextRole]_vars

\* the weights of the ROLE_WEIGHTS keywords found in the upper-cased title
KeywordWeights(title) ==
    {ROLE_WEIGHTS[k].weight :
        k \in {j \in 1..Len(ROLE_WEIGHTS) : Contains(Upper(title), ROLE_WEIGHTS[j].key)}}

\* C14: role weight.  The result is the largest weight among the keywords found
\* in the upper-cased title; with no keyword it is 1 for an officer, else 1 for
\* a director, else 0; it is always in 0..4.
C14_RoleWeight ==
    (eval.fn = "compute_insider_role_weight" /\ eval.done) =>
        LET found == KeywordWeights(eval.officer_title)
        IN  /\ eval.result \in 0..4
            /\ found # {} => eval.result = SetMax(found)
            /\ found = {} => eval.result = (IF eval.is_officer THEN 1
                                            ELSE IF eval.is_director THEN 1 ELSE 0)

\* C14 witness: a title with keywords of two tiers got the higher weight
C14_Witness ==
    /\ eval.fn = "compute_insider_role_weight"
    /\ eval.done
    /\ {2, 4} \subseteq KeywordWeights(eval.officer_title)
    /\ eval.result = 4

\* a title without a keyword, weighted by the flags
RoleFlagFallback ==
    /\ eval.fn = "compute_insider_role_weight"
    /\ eval.done
    /\ KeywordWeights(eval.officer_title) = {}
    /\ eval.is_director
    /\ ~eval.is_officer
    /\ eval.result = 1

----------------------------------------------------------------------------
(* compute_cluster_score on its own, called twice with two fund counts and *)
(* all_insiders = people + funds, as the merged record passes it.          *)

\* the largest number of people, of funds, and the largest role score tried
MaxCount == 3

ValueInputs == {0, 5, 63}

InitScore ==
    /\ insider_buy_signals = {}
    /\ insider_exclusions = {}
    /\ insider_entities = {}
    /\ params = DefaultParams
    /\ last = NoCall
    /\ prev = NoCall
    /\ sweep = NoSweep
    /\ uncommitted = {}
    /\ session = NoSessions
    /\ loader = NoLoader
    /\ \E people \in 0..MaxCount, role_score \in 0..MaxCount, total_value \in ValueInputs,
          f1 \in 0..MaxCount, f2 \in 0..MaxCount :
          /\ f1 < f2
          /\ eval = [fn |-> "compute_cluster_score", done |-> FALSE,
                     people |-> people, role_score |-> role_score,
                     total_value |-> total_value, f1 |-> f1, f2 |-> f2,
                     score1 |-> 0, score2 |-> 0]

ClusterScoreCalls ==
    /\ eval.fn = "compute_cluster_score"
    /\ ~eval.done
    /\ eval' = [eval EXCEPT
                  !.done = TRUE,
                  !.score1 = compute_cluster_score(eval.people, eval.role_score,
                                 eval.total_value, eval.f1, eval.people + eval.f1),
                  !.score2 = compute_cluster_score(eval.people, eval.role_score,
                                 eval.total_value, eval.f2, eval.people + eval.f2)]
    /\ EvalFrame

NextScore == ClusterScoreCalls

SpecScore == InitScore /\ [][NextScore]_vars

ScoresDone == eval.fn = "compute_cluster_score" /\ eval.done

\* C15 as the specification states it: with more funds the score is strictly
\* lower, also when there are no people
C15_AsStated == ScoresDone => eval.score2 < eval.score1

\* C15: fund penalty.  With more funds the score is never higher; it is
\* strictly lower when there is at least one person or the smaller fund count
\* is 0, and it is the same when there are no people and both counts are >= 1.
C15_FundPenalty ==
    ScoresDone =>
        /\ eval.score2 <= eval.score1
        /\ (eval.people >= 1 \/ eval.f1 = 0) => eval.score2 < eval.score1
        /\ (eval.people = 0 /\ eval.f1 >= 1) => eval.score2 = eval.score1

\* C15 witness: people beside one fund, then beside more funds, and a lower score
C15_Witness ==
    /\ ScoresDone
    /\ eval.people >= 1
    /\ eval.f1 >= 1
    /\ eval.score2 < eval.score1

\* no people, one fund or two: the fund ratio is 1 both times
FundsOnlyPlateau ==
    /\ ScoresDone
    /\ eval.people = 0
    /\ eval.f1 = 1
    /\ eval.f2 = 2
    /\ eval.score2 = eval.score1

----------------------------------------------------------------------------
(* The classifier on its own: two raw names classified with one title and  *)
(* one pair of flags, each as the first spelling of its name to be seen.   *)

NAME_OAK_LP == <<"O", "a", "k", " ", "L", "P">>
NAME_OAK_LP_SPACES == <<"o", "a", "k", " ", " ", "l", "p">>
NAME_OAK_LP_TAB == <<"O", "a", "k", "\t", "L", "P">>
NAME_LP_LEADING_SPACE == <<" ", "l", "p">>
NAME_LP == <<"L", "P">>
NAME_VANGUARD_LOWER == <<"v", "a", "n", "g", "u", "a", "r", "d", " ", "g", "r", "o", "u", "p", " ", "i", "n", "c">>

ClassifyNames ==
    {NAME_A, NAME_A_LOWER, NAME_VANGUARD, NAME_VANGUARD_LOWER, NAME_OAK_LP,
     NAME_OAK_LP_SPACES, NAME_OAK_LP_TAB, NAME_LP_LEADING_SPACE, NAME_LP}

InitClassify ==
    /\ insider_buy_signals = {}
    /\ insider_exclusions = {}
    /\ insider_entities = {}
    /\ params = DefaultParams
    /\ last = NoCall
    /\ prev = NoCall
    /\ sweep = NoSweep
    /\ uncommitted = {}
    /\ session = NoSessions
    /\ loader = NoLoader
    /\ \E n1 \in ClassifyNames, n2 \in ClassifyNames, title \in {BLANK, TITLE_CFO},
          d \in BOOLEAN, o \in BOOLEAN :
          eval = [fn |-> "classify", done |-> FALSE, name1 |-> n1, name2 |-> n2,
                  officer_title |-> title,
                  flags |-> [is_director |-> d, is_officer |-> o],
                  rules1 |-> NoRow, rules2 |-> NoRow,
                  entity1 |-> NoRow, entity2 |-> NoRow]

\* classify_insider_by_rules and the row get_or_create_insider_entity builds
\* from it, for each of the two names
ClassifyCalls ==
    /\ eval.fn = "classify"
    /\ ~eval.done
    /\ eval' = [eval EXCEPT
                  !.done = TRUE,
                  !.rules1 = classify_insider_by_rules(eval.name1, eval.officer_title, eval.flags),
                  !.rules2 = classify_insider_by_rules(eval.name2, eval.officer_title, eval.flags),
                  !.entity1 = NewEntity(eval.name1, eval.officer_title, eval.flags, NoInsiderId),
                  !.entity2 = NewEntity(eval.name2, eval.officer_title, eval.flags, NoInsiderId)]
    /\ EvalFrame

NextClassify == ClassifyCalls

SpecClassify == InitClassify /\ [][NextClassify]_vars

Classified == eval.fn = "classify" /\ eval.done

\* the upper-cased name holds a fund or legal-entity token
HasFundToken(name) ==
    \E k \in 1..Len(FUND_TOKENS) : Contains(Upper(name), FUND_TOKENS[k])

\* what C16 says of one name: the rule result, and the row built from it
ContractHolds(name, rules_result, entity) ==
    /\ HasFundToken(name) =>
          /\ rules_result.entity_type = "fund_or_investment_vehicle"
          /\ rules_result.is_fund_like
          /\ rules_result.confidence = 80
    /\ ~HasFundToken(name) =>
          /\ rules_result.entity_type = "person"
          /\ ~rules_result.is_fund_like
          /\ rules_result.confidence =
                (IF eval.flags.is_officer \/ eval.flags.is_director THEN 70 ELSE 60)
    /\ rules_result.source = "rules"
    /\ entity.entity_type = rules_result.entity_type
    /\ entity.is_fund_like = rules_result.is_fund_like
    /\ rules_result.confidence < 80 =>
          (entity.source = "ai" /\ entity.confidence >= 75)
    /\ rules_result.confidence >= 80 =>
          (entity.source = "rules" /\ entity.confidence = rules_result.confidence)

\* C16: classifier contract.  A name with a fund token is (fund, fund-like, 0.8)
\* by the rules, any other (person, not fund-like, 0.6, or 0.7 with a flag set);
\* the row built is the fallback's (same type, source ai, confidence >= 0.75)
\* exactly when the rule confidence is below 0.8, and the rule result otherwise.
C16_ClassifierContract ==
    Classified =>
        /\ ContractHolds(eval.name1, eval.rules1, eval.entity1)
        /\ ContractHolds(eval.name2, eval.rules2, eval.entity2)

\* C16 witness: a flagged person went to the fallback, a fund did not
C16_Witness ==
    /\ Classified
    /\ eval.flags.is_officer
    /\ eval.rules1.confidence = 70
    /\ eval.entity1.source = "ai"
    /\ eval.entity1.confidence = 75
    /\ eval.rules2.confidence = 80
    /\ eval.entity2.source = "rules"

\* C17: two raw names with the same normalized name get the same entity_type and
\* is_fund_like, whichever of them is classified.
C17_FunctionOfNormalizedName ==
    (Classified /\ normalize_insider_name(eval.name1) = normalize_insider_name(eval.name2)) =>
        /\ eval.entity1.entity_type = eval.entity2.entity_type
        /\ eval.entity1.is_fund_like = eval.entity2.is_fund_like


\* the two shapes of a persisted classification
FundShape(x) ==
    /\ x.entity_type = ENTITY_FUND
    /\ x.is_fund_like
    /\ x.source = "rules"
    /\ x.confidence = 80

PersonShape(x) ==
    /\ x.entity_type = ENTITY_PERSON
    /\ ~x.is_fund_like
    /\ x.source = "ai"
    /\ x.confidence = 75

\* C25: persisted classification records take only two shapes.  After any
\* sequence of get_or_create_insider_entity calls every row of the cache, and
\* every row a session has flushed, is (fund_or_investment_vehicle, fund-like,
\* rules, 0.8) or (person, not fund-like, ai, 0.75): source is ai exactly for
\* persons, confidence is 0.75 or more and within [0, 1], and neither the
\* officer/director flags nor the title show in the row.
C25_TwoShapes ==
    \A x \in insider_entities \cup {u.row : u \in uncommitted} :
        /\ FundShape(x) \/ PersonShape(x)
        /\ x.source = "ai" <=> x.entity_type = ENTITY_PERSON
        /\ x.confidence >= 75
        /\ x.confidence >= 0 /\ x.confidence <= 100

\* C25 witness: the cache holds a fund and a person, the person stored by the
\* call that passed the title CFO and the officer flag
C25_Witness ==
    /\ \E x \in insider_entities : FundShape(x)
    /\ \E x \in insider_entities : PersonShape(x) /\ x.insider_id = "0001"

----------------------------------------------------------------------------
(* The quarter loader (scripts/load_form345_quarter.py): main() run again   *)
(* and again over the quarter folders of DATA_DIR, with the loaded_to_db    *)
(* log, missing TSV files and storage errors.                               *)

\* how many quarter folders there are, how often main() is run, and how many
\* storage errors occur
MaxQuarters == 2
MaxRuns == 3
MaxErrors == 1

\* the quarter folders, in the order sorted() gives their names
Quarters == 1..MaxQuarters

\* TABLE_MAP, in the order the dict is written and iterated
TABLE_MAP ==
    << [file |-> "SUBMISSION.tsv", table |-> "form345_submission"],
       [file |-> "REPORTINGOWNER.tsv", table |-> "form345_reportingowner"],
       [file |-> "NONDERIV_TRANS.tsv", table |-> "form345_nonderiv_trans"],
       [file |-> "DERIV_TRANS.tsv", table |-> "form345_deriv_trans"] >>

StagingTables == {TABLE_MAP[i].table : i \in 1..Len(TABLE_MAP)}

TsvFiles == {TABLE_MAP[i].file : i \in 1..Len(TABLE_MAP)}

\* sorted(p for p in base.glob("*_form345") if p.is_dir())
RECURSIVE quarter_dirs(_)
quarter_dirs(dirs) ==
    IF dirs = {} THEN <<>>
    ELSE LET first == CHOOSE q \in dirs : \A r \in dirs : q <= r
         IN  <<first>> \o quarter_dirs(dirs \ {first})

\* DATA_DIR holds some quarter folders, each complete or short of one TSV file;
\* the log file does not exist and the staging tables are empty
InitLoader ==
    /\ insider_buy_signals = {}
    /\ insider_exclusions = {}
    /\ insider_entities = {}
    /\ params = DefaultParams
    /\ last = NoCall
    /\ prev = NoCall
    /\ sweep = NoSweep
    /\ uncommitted = {}
    /\ session = NoSessions
    /\ eval = NoEval
    /\ \E dirs \in SUBSET Quarters :
       \E missing \in [Quarters -> {{}} \cup {{f} : f \in TsvFiles}] :
          loader = [pc |-> "idle", dirs |-> dirs, missing |-> missing,
                    log |-> {}, already_loaded |-> {}, queue |-> <<>>,
                    table |-> 1, runs |-> 0, errors |-> 0,
                    appended |-> [q \in Quarters |-> [t \in StagingTables |-> 0]]]

LoaderFrame ==
    UNCHANGED <<insider_buy_signals, insider_exclusions, insider_entities, params,
                last, prev, sweep, uncommitted, session, eval>>

\* the state a run of main() leaves behind when it ends or raises: the log
\* file and the staging tables stay, the process's memory goes
Exited(l) ==
    [l EXCEPT !.pc = "idle", !.already_loaded = {}, !.queue = <<>>, !.table = 1]

\* a new quarter folder is unpacked into DATA_DIR
DownloadQuarter(q) ==
    /\ loader.pc = "idle"
    /\ q \notin loader.dirs
    /\ loader' = [loader EXCEPT !.dirs = @ \cup {q}]
    /\ LoaderFrame

\* a TSV file that was missing is put into its quarter folder
RestoreFile(q, f) ==
    /\ loader.pc = "idle"
    /\ f \in loader.missing[q]
    /\ loader' = [loader EXCEPT !.missing[q] = @ \ {f}]
    /\ LoaderFrame

\* main(), lines 85-91: read the log, list the quarter folders, return if
\* there is none
MainStart ==
    /\ loader.pc = "idle"
    /\ loader.runs < MaxRuns
    /\ loader' = IF loader.dirs = {}
                 THEN [loader EXCEPT !.runs = @ + 1]
                 ELSE [loader EXCEPT !.pc = "running", !.runs = @ + 1,
                                     !.already_loaded = loader.log,
                                     !.queue = quarter_dirs(loader.dirs),
                                     !.table = 1]
    /\ LoaderFrame

\* main(), lines 94-98: a quarter of the log is skipped
SkipQuarter ==
    /\ loader.pc = "running"
    /\ loader.queue # <<>>
    /\ Head(loader.queue) \in loader.already_loaded
    /\ loader' = [loader EXCEPT !.queue = Tail(@)]
    /\ LoaderFrame

\* the quarter main() is loading and the TABLE_MAP entry load_quarter is at
Loading ==
    /\ loader.pc = "running"
    /\ loader.queue # <<>>
    /\ Head(loader.queue) \notin loader.already_loaded
    /\ loader.table <= Len(TABLE_MAP)

\* load_quarter, one turn of its loop with the file in place: the rows of the
\* file are appended to the table (to_sql, if_exists="append")
LoadTable ==
    /\ Loading
    /\ TABLE_MAP[loader.table].file \notin loader.missing[Head(loader.queue)]
    /\ loader' = [loader EXCEPT
                     !.appended[Head(loader.queue)][TABLE_MAP[loader.table].table] = @ + 1,
                     !.table = @ + 1]
    /\ LoaderFrame

\* load_quarter, line 76-77: the file is missing, FileNotFoundError ends main()
MissingFile ==
    /\ Loading
    /\ TABLE_MAP[loader.table].file \in loader.missing[Head(loader.queue)]
    /\ loader' = Exited(loader)
    /\ LoaderFrame

\* load_quarter, lines 80-81: ensure_columns or to_sql raises; the insert of
\* this table is rolled back and the error ends main()
StorageError ==
    /\ Loading
    /\ TABLE_MAP[loader.table].file \notin loader.missing[Head(loader.queue)]
    /\ loader.errors < MaxErrors
    /\ loader' = [Exited(loader) EXCEPT !.errors = @ + 1]
    /\ LoaderFrame

\* main(), lines 101-103: load_quarter has returned; the quarter is added to
\* the log and the log file is rewritten
LogQuarter ==
    /\ loader.pc = "running"
    /\ loader.queue # <<>>
    /\ Head(loader.queue) \notin loader.already_loaded
    /\ loader.table > Len(TABLE_MAP)
    /\ loader' = [loader EXCEPT
                     !.already_loaded = @ \cup {Head(loader.queue)},
                     !.log = loader.already_loaded \cup {Head(loader.queue)},
                     !.queue = Tail(@),
                     !.table = 1]
    /\ LoaderFrame

\* main(), line 105: every quarter folder has been visited
MainDone ==
    /\ loader.pc = "running"
    /\ loader.queue = <<>>
    /\ loader' = Exited(loader)
    /\ LoaderFrame

NextLoader ==
    \/ \E q \in Quarters : DownloadQuarter(q)
    \/ \E q \in Quarters : \E f \in TsvFiles : RestoreFile(q, f)
    \/ MainStart
    \/ SkipQuarter
    \/ LoadTable
    \/ MissingFile
    \/ StorageError
    \/ LogQuarter
    \/ MainDone

SpecLoader == InitLoader /\ [][NextLoader]_vars

\* every quarter's rows are in every staging table at most once
AppendedAtMostOnce ==
    \A q \in Quarters : \A t \in StagingTables : loader.appended[q][t] <= 1

\* no step appends rows of a quarter that the log file holds
LoggedNeverLoadedAgain ==
    \A q \in Quarters :
        q \in loader.log => loader'.appended[q] = loader.appended[q]

\* C20: ingestion idempotence at quarter granularity.  After any sequence of runs
\* of main(), runs that a missing TSV file or a storage error ended part-way
\* through a quarter included, each quarter's rows have been appended to each
\* staging table at most once, and a quarter of the loaded_to_db log is never
\* loaded again.
C20_Idempotent == [](AppendedAtMostOnce) /\ [][LoggedNeverLoadedAgain]_vars

\* the half of C20 that the log does give: a quarter of the log is never loaded
\* again, and a quarter is in the log only with each of its files appended
C20_LoggedQuarters ==
    /\ [][LoggedNeverLoadedAgain]_vars
    /\ [](\A q \in loader.log : \A t \in StagingTables : loader.appended[q][t] >= 1)

\* a quarter is in the log with a table that holds its rows twice: a run ended
\* by an error after some tables, then a run that loaded the quarter in full
LoggedAfterRerun ==
    \E q \in loader.log : \E t \in StagingTables : loader.appended[q][t] = 2

\* a run skips a quarter of the log
SkippedLoggedQuarter ==
    /\ loader.pc = "running"
    /\ loader.queue # <<>>
    /\ Head(loader.queue) \in loader.log

====
